---- MODULE Spec2Model ----
(***************************************************************************)
(* Host-side Program (tt_metal/impl/program.cpp): circular-buffer          *)
(* registration and per-core L1 allocation, validation of the circular     *)
(* buffer region against the device, kernel grouping per core and          *)
(* blank-kernel insertion.                                                 *)
(*                                                                         *)
(* std::optional<T> is modelled as a sequence of length 0 (nullopt) or 1.  *)
(* A CoreCoord is <<x, y>>, a CoreRange is [start, end] (inclusive), a     *)
(* CoreRangeSet is a set of pairwise disjoint CoreRanges.                  *)
(***************************************************************************)
EXTENDS Integers, Sequences, FiniteSets, TLC

\* ---------------------------------------------------------------- bounds
GridX == 2
GridY == 2
MaxRanges == 2
MaxCBs == 2
MaxReallocations == 2
MaxKernels == 2

\* ------------------------------------------------------ program constants
NUM_CIRCULAR_BUFFERS == 32
L1_UNRESERVED_BASE == 100
DEVICE_COMMAND_DATA_ADDR == 1000

\* ------------------------------------------------------------- optionals
Nullopt == <<>>
Some(v) == <<v>>
has_value(o) == Len(o) > 0
value(o) == o[1]

Max(a, b) == IF a >= b THEN a ELSE b

\* ---------------------------------------------------------------- geometry
Cores == (0 .. GridX - 1) \X (0 .. GridY - 1)

CoreRanges ==
    {r \in [start : Cores, end : Cores] : r.start[1] <= r.end[1] /\ r.start[2] <= r.end[2]}

CoresOfRange(r) ==
    {c \in Cores : /\ r.start[1] <= c[1] /\ c[1] <= r.end[1]
                   /\ r.start[2] <= c[2] /\ c[2] <= r.end[2]}

\* CoreRangeSet: its ranges never cover the same coordinate twice
IsCoreRangeSet(crs) ==
    \A r1 \in crs, r2 \in crs : r1 # r2 => CoresOfRange(r1) \cap CoresOfRange(r2) = {}

RECURSIVE RangeSetsUpTo(_)
\* the sets of at most n pairwise disjoint ranges
RangeSetsUpTo(n) ==
    IF n = 0 THEN {{}}
    ELSE LET smaller == RangeSetsUpTo(n - 1)
         IN  smaller \cup
             {crs \in {less \cup {r} : less \in smaller, r \in CoreRanges} : IsCoreRangeSet(crs)}

CoreRangeSets == RangeSetsUpTo(MaxRanges) \ {{}}

CoresOf(crs) == UNION {CoresOfRange(r) : r \in crs}

CoreLess(a, b) == a[1] < b[1] \/ (a[1] = b[1] /\ a[2] < b[2])

\* for (x = start.x ..) for (y = start.y ..): x outer, y inner
CoreSeqOfRange(r) ==
    LET h == r.end[2] - r.start[2] + 1
        w == r.end[1] - r.start[1] + 1
    IN  [k \in 1 .. (w * h) |-> <<r.start[1] + ((k - 1) \div h), r.start[2] + ((k - 1) % h)>>]

RECURSIVE CoreSeq(_)
\* the cores of a CoreRangeSet in the order the nested loops visit them
CoreSeq(crs) ==
    IF crs = {} THEN <<>>
    ELSE LET first == CHOOSE r \in crs : \A q \in crs : q = r \/ CoreLess(r.start, q.start)
         IN  CoreSeqOfRange(first) \o CoreSeq(crs \ {first})

RECURSIVE SetToSeq(_)
\* ascending iteration over a set of integers
SetToSeq(S) ==
    IF S = {} THEN <<>>
    ELSE LET m == CHOOSE x \in S : \A y \in S : x <= y
         IN  <<m>> \o SetToSeq(S \ {m})

\* ------------------------------------------------------------------ state
VARIABLES
    circular_buffers_,                    \* Program::circular_buffers_ (registration order)
    per_core_cb_allocator_,               \* Program::per_core_cb_allocator_ (core -> allocator)
    circular_buffer_allocation_needed_,   \* Program::circular_buffer_allocation_needed_
    compile_needed_,                      \* Program::compile_needed_
    status,                               \* "ok", or "fatal" once log_fatal / log_assert fired
    fatal_log,                            \* what the fatal path logged
    call,                                 \* the operation that returned (or died) last
    first_allocation,                     \* history: result of the first allocation of this buffer list,
                                          \* and how often it was repeated since
    kernel_ids_,                          \* Program::kernel_ids_ (insertion order)
    kernel_by_id_,                        \* Program::kernel_by_id_ (std::map, iterated by id)
    core_to_kernel_group_                 \* Program::core_to_kernel_group_ (lazily computed)

\* the process around the Program: a second Program, the compile pipeline and
\* its process-wide caches
VARIABLES
    other_program,                        \* a second Program of the same process
    compiler,                             \* per Program: where its caller stands inside compile()
    kernel_binaries,                      \* per Program and kernel: binary path set, binaries read
    worker_crs_,                          \* per Program: the cores of Program::worker_crs_
    compiled,                             \* static bool compiled of CompileBlankKernel
    hash_lookup,                          \* detail::HashLookup, the process-wide hash ledger
    outpath,                              \* kernel_name/hash directories present under outpath
    enable_persistent_kernel_cache,       \* the atomic flag of that name
    work                                  \* history: runs of the blank build and of GenerateBinaries

\* the semaphores of the Program
VARIABLES
    semaphores_                           \* Program::semaphores_, in order of registration

\* the dispatch firmware
VARIABLES
    fw,                                   \* the firmware routine being executed and its locals
    noc_log,                              \* history: the NOC calls issued, in order
    command_stream,                       \* the words command_ptr walks over
    command_ptr,                          \* index of command_ptr[0] in command_stream
    dispatch_message,                     \* the word at DISPATCH_MESSAGE_ADDR
    workers,                              \* launched workers that have not signalled completion yet
    finish_ptr,                           \* the word finish_ptr[0] in the dispatcher's L1
    host_cq_finish                        \* the word at HOST_CQ_FINISH_PTR in host memory

compileVars == <<other_program, compiler, kernel_binaries, worker_crs_, compiled, hash_lookup,
                 outpath, enable_persistent_kernel_cache, work>>
fwVars == <<fw, noc_log, command_stream, command_ptr, dispatch_message, workers,
            finish_ptr, host_cq_finish>>

vars == <<circular_buffers_, per_core_cb_allocator_, circular_buffer_allocation_needed_,
          compile_needed_, status, fatal_log, call, first_allocation,
          kernel_ids_, kernel_by_id_, core_to_kernel_group_, compileVars, fwVars, semaphores_>>

cbVars == <<circular_buffers_, per_core_cb_allocator_, circular_buffer_allocation_needed_,
            first_allocation>>
kernelVars == <<kernel_ids_, kernel_by_id_, core_to_kernel_group_>>

NoLog == [msg |-> "", args |-> <<>>]
Log(m, a) == [msg |-> m, args |-> a]
NoCall == [op |-> "", args |-> <<>>]

\* ------------------------------------------------- CircularBufferAllocator
NewAllocator ==
    [indices |-> {}, l1_regions |-> << <<L1_UNRESERVED_BASE, L1_UNRESERVED_BASE>> >>]

reset_available_addresses(a) ==
    [a EXCEPT !.l1_regions = << <<L1_UNRESERVED_BASE, L1_UNRESERVED_BASE>> >>]

Ok(a) == [alloc |-> a, fatal |-> Nullopt]
Fatal(a, m, args) == [alloc |-> a, fatal |-> Some(Log(m, args))]

\* The set of outcomes of add_index.  index = NUM_CIRCULAR_BUFFERS passes the
\* range test; 1 << index and indices[index] are then undefined (shift by the
\* width of int, bitset access past the end): the occupancy test may fire or
\* not, and the write may or may not show up in the bitset.
add_index(a, index) ==
    IF index > NUM_CIRCULAR_BUFFERS
    THEN {Fatal(a, "Invalid circular buffer index: should be between 0 and NUM_CIRCULAR_BUFFERS", <<index>>)}
    ELSE IF index < NUM_CIRCULAR_BUFFERS
    THEN IF index \in a.indices
         THEN {Fatal(a, "Invalid circular buffer index: another circular buffer already exists", <<index>>)}
         ELSE {Ok([a EXCEPT !.indices = @ \cup {index}])}
    ELSE {Fatal(a, "Invalid circular buffer index: another circular buffer already exists", <<index>>),
          Ok(a),
          Ok([a EXCEPT !.indices = @ \cup {index}])}

get_address_candidate(a) == a.l1_regions[Len(a.l1_regions)][2]

\* mutant: last_region taken by value, the extension of the last region is lost
mark_address_by_value(a, address, size) ==
    LET last_region == a.l1_regions[Len(a.l1_regions)]
    IN  IF ~(address >= last_region[2])
        THEN Fatal(a, "Local buffer address has to append to last L1 region or be at a higher address",
                   <<address, last_region[1], last_region[2]>>)
        ELSE IF address = last_region[2]
        THEN Ok(a)
        ELSE Ok([a EXCEPT !.l1_regions = Append(@, <<address, address + size>>)])

\* mutant: every marked address opens a new region, the last one is never extended
mark_address_always_append(a, address, size) ==
    LET last_region == a.l1_regions[Len(a.l1_regions)]
    IN  IF ~(address >= last_region[2])
        THEN Fatal(a, "Local buffer address has to append to last L1 region or be at a higher address",
                   <<address, last_region[1], last_region[2]>>)
        ELSE Ok([a EXCEPT !.l1_regions = Append(@, <<address, address + size>>)])

\* mutant: an address above the end of the last region extends that region too
mark_address_always_extend(a, address, size) ==
    LET last_region == a.l1_regions[Len(a.l1_regions)]
    IN  IF ~(address >= last_region[2])
        THEN Fatal(a, "Local buffer address has to append to last L1 region or be at a higher address",
                   <<address, last_region[1], last_region[2]>>)
        ELSE Ok([a EXCEPT !.l1_regions[Len(a.l1_regions)] = <<last_region[1], address + size>>])

mark_address(a, address, size) ==
    LET last_region == a.l1_regions[Len(a.l1_regions)]
    IN  IF ~(address >= last_region[2])
        THEN Fatal(a, "Local buffer address has to append to last L1 region or be at a higher address",
                   <<address, last_region[1], last_region[2]>>)
        ELSE IF address = last_region[2]
        THEN Ok([a EXCEPT !.l1_regions[Len(a.l1_regions)] = <<last_region[1], last_region[2] + size>>])
        ELSE Ok([a EXCEPT !.l1_regions = Append(@, <<address, address + size>>)])

\* ------------------------------------------------------- Program: helpers
AllocatorAt(allocs, core) ==
    IF core \in DOMAIN allocs THEN allocs[core] ELSE NewAllocator

Put(allocs, core, a) ==
    [c \in DOMAIN allocs \cup {core} |-> IF c = core THEN a ELSE allocs[c]]

RECURSIVE AddIndexLoop(_, _, _)
\* for (auto buffer_index : circular_buffer->buffer_indices()) cb_config.add_index(buffer_index)
AddIndexLoop(a, idxs, k) ==
    IF k > Len(idxs) THEN {Ok(a)}
    ELSE UNION {IF has_value(o.fatal) THEN {o} ELSE AddIndexLoop(o.alloc, idxs, k + 1) :
                o \in add_index(a, idxs[k])}

RECURSIVE MarkIndicesOnCores(_, _, _, _)
\* the loop of add_circular_buffer over every core of the range set; operator[]
\* creates the core's allocator when it has none
MarkIndicesOnCores(allocs, cores, idxs, k) ==
    IF k > Len(cores) THEN {[allocs |-> allocs, fatal |-> Nullopt]}
    ELSE UNION {IF has_value(o.fatal)
                THEN {[allocs |-> Put(allocs, cores[k], o.alloc), fatal |-> o.fatal]}
                ELSE MarkIndicesOnCores(Put(allocs, cores[k], o.alloc), cores, idxs, k + 1) :
                o \in AddIndexLoop(AllocatorAt(allocs, cores[k]), idxs, 1)}

\* mutant: the flag is raised but the per-core allocators are not reset
InvalidatedAllocators_no_reset == per_core_cb_allocator_

\* mutant: the test of the early return is inverted
InvalidatedAllocators_inverted_test ==
    IF ~circular_buffer_allocation_needed_
    THEN per_core_cb_allocator_
    ELSE [c \in DOMAIN per_core_cb_allocator_ |->
              reset_available_addresses(per_core_cb_allocator_[c])]

\* Program::invalidate_circular_buffer_allocation, on the allocator map
InvalidatedAllocators ==
    IF circular_buffer_allocation_needed_
    THEN per_core_cb_allocator_
    ELSE [c \in DOMAIN per_core_cb_allocator_ |->
              reset_available_addresses(per_core_cb_allocator_[c])]

RECURSIVE ComputedAddr_min(_, _, _, _)
\* mutant: the minimum candidate instead of the maximum
ComputedAddr_min(allocs, cores, k, acc) ==
    IF k > Len(cores) THEN acc
    ELSE LET candidate_addr == allocs[cores[k]].l1_regions[Len(allocs[cores[k]].l1_regions)][2]
         IN  ComputedAddr_min(allocs, cores, k + 1,
                              IF ~has_value(acc) THEN Some(candidate_addr)
                              ELSE Some(IF value(acc) <= candidate_addr THEN value(acc)
                                        ELSE candidate_addr))

RECURSIVE ComputedAddr(_, _, _, _)
\* the maximum of get_address_candidate() over the cores of the buffer
ComputedAddr(allocs, cores, k, acc) ==
    IF k > Len(cores) THEN acc
    ELSE LET candidate_addr == get_address_candidate(allocs[cores[k]])
         IN  ComputedAddr(allocs, cores, k + 1,
                          IF ~has_value(acc) THEN Some(candidate_addr)
                          ELSE Some(Max(value(acc), candidate_addr)))

RECURSIVE MarkLoop(_, _, _, _, _)
\* for (auto &cb_allocator : cb_allocators) mark_address(computed_addr, size)
MarkLoop(allocs, cores, k, address, size) ==
    IF k > Len(cores) THEN [allocs |-> allocs, fatal |-> Nullopt]
    ELSE LET o == mark_address(allocs[cores[k]], address, size)
         IN  IF has_value(o.fatal) THEN [allocs |-> allocs, fatal |-> o.fatal]
             ELSE MarkLoop(Put(allocs, cores[k], o.alloc), cores, k + 1, address, size)

\* mutant: the requested address is checked but never taken over
AllocateOne_ignore_requested(allocs, cb) ==
    LET cores == CoreSeq(cb.core_ranges)
        candidate == ComputedAddr(allocs, cores, 1, Nullopt)
        requested_address == cb.requested_address
    IN  IF has_value(requested_address) /\ value(requested_address) < value(candidate)
        THEN [allocs |-> allocs, cb |-> cb,
              fatal |-> Some(Log("Specified address should be at max local buffer region for core range set",
                                 <<value(requested_address), value(candidate)>>))]
        ELSE LET m == MarkLoop(allocs, cores, 1, value(candidate), cb.size)
             IN  IF has_value(m.fatal)
                 THEN [allocs |-> m.allocs, cb |-> cb, fatal |-> m.fatal]
                 ELSE [allocs |-> m.allocs,
                       cb |-> [cb EXCEPT !.address = Some(value(candidate))],
                       fatal |-> Nullopt]

\* one iteration of the loop of allocate_circular_buffers
AllocateOne(allocs, cb) ==
    LET cores == CoreSeq(cb.core_ranges)
        candidate == ComputedAddr(allocs, cores, 1, Nullopt)
        requested_address == cb.requested_address
    IN  IF has_value(requested_address) /\ value(requested_address) < value(candidate)
        THEN [allocs |-> allocs, cb |-> cb,
              fatal |-> Some(Log("Specified address should be at max local buffer region for core range set",
                                 <<value(requested_address), value(candidate)>>))]
        ELSE LET computed_addr == IF has_value(requested_address) THEN requested_address
                                  ELSE candidate
                 m == MarkLoop(allocs, cores, 1, value(computed_addr), cb.size)
             IN  IF has_value(m.fatal)
                 THEN [allocs |-> m.allocs, cb |-> cb, fatal |-> m.fatal]
                 ELSE [allocs |-> m.allocs,
                       cb |-> [cb EXCEPT !.address = Some(value(computed_addr))],
                       fatal |-> Nullopt]

RECURSIVE AllocateLoop(_, _, _)
\* for (circular_buffer : this->circular_buffers_), in registration order
AllocateLoop(cbs, allocs, i) ==
    IF i > Len(cbs) THEN [cbs |-> cbs, allocs |-> allocs, fatal |-> Nullopt]
    ELSE LET r == AllocateOne(allocs, cbs[i])
         IN  IF has_value(r.fatal)
             THEN [cbs |-> cbs, allocs |-> r.allocs, fatal |-> r.fatal]
             ELSE AllocateLoop([cbs EXCEPT ![i] = r.cb], r.allocs, i + 1)

Addresses(cbs) == [i \in 1 .. Len(cbs) |-> cbs[i].address]

\* ---------------------------------------------------- Program: operations
add_circular_buffer(core_range_set, config) ==
    /\ status = "ok"
    /\ Len(circular_buffers_) < MaxCBs
    /\ compile_needed_' = TRUE
    /\ circular_buffer_allocation_needed_' = TRUE
    /\ \E o \in MarkIndicesOnCores(InvalidatedAllocators, CoreSeq(core_range_set),
                                   SetToSeq(config.buffer_indices), 1) :
          /\ per_core_cb_allocator_' = o.allocs
          /\ IF has_value(o.fatal)
             THEN /\ status' = "fatal"
                  /\ fatal_log' = value(o.fatal)
                  /\ UNCHANGED circular_buffers_
             ELSE /\ circular_buffers_' = Append(circular_buffers_,
                        [core_ranges |-> core_range_set,
                         size |-> config.size,
                         buffer_indices |-> config.buffer_indices,
                         requested_address |-> config.requested_address,
                         address |-> Nullopt])
                  /\ UNCHANGED <<status, fatal_log>>
    /\ call' = [op |-> "add_circular_buffer", args |-> <<core_range_set, config>>]
    /\ first_allocation' = Nullopt
    /\ UNCHANGED <<kernelVars, compileVars, fwVars, semaphores_>>

invalidate_circular_buffer_allocation ==
    /\ status = "ok"
    /\ per_core_cb_allocator_' = InvalidatedAllocators
    /\ circular_buffer_allocation_needed_' = TRUE
    /\ call' = [op |-> "invalidate_circular_buffer_allocation", args |-> <<>>]
    /\ UNCHANGED <<circular_buffers_, compile_needed_, status, fatal_log, first_allocation>>
    /\ UNCHANGED <<kernelVars, compileVars, fwVars, semaphores_>>

allocate_circular_buffers ==
    /\ status = "ok"
    /\ call' = [op |-> "allocate_circular_buffers", args |-> <<>>]
    /\ UNCHANGED compile_needed_
    /\ UNCHANGED <<kernelVars, compileVars, fwVars, semaphores_>>
    /\ IF ~circular_buffer_allocation_needed_
       THEN UNCHANGED <<circular_buffers_, per_core_cb_allocator_,
                        circular_buffer_allocation_needed_, status, fatal_log, first_allocation>>
       ELSE LET r == AllocateLoop(circular_buffers_, per_core_cb_allocator_, 1)
            IN  /\ circular_buffers_' = r.cbs
                /\ per_core_cb_allocator_' = r.allocs
                /\ IF has_value(r.fatal)
                   THEN /\ status' = "fatal"
                        /\ fatal_log' = value(r.fatal)
                        /\ UNCHANGED <<circular_buffer_allocation_needed_, first_allocation>>
                   ELSE /\ circular_buffer_allocation_needed_' = FALSE
                        /\ first_allocation' =
                              IF has_value(first_allocation)
                              THEN Some([value(first_allocation) EXCEPT
                                            !.repeats = IF @ < MaxReallocations THEN @ + 1 ELSE @])
                              ELSE Some([addresses |-> Addresses(r.cbs),
                                         allocators |-> r.allocs, repeats |-> 0])
                        /\ UNCHANGED <<status, fatal_log>>

\* the lambda highest_cb_l1_region of validate_circular_buffer_region
highest_cb_l1_region(core) ==
    IF core \notin DOMAIN per_core_cb_allocator_
    THEN <<L1_UNRESERVED_BASE, L1_UNRESERVED_BASE>>
    ELSE per_core_cb_allocator_[core].l1_regions[Len(per_core_cb_allocator_[core].l1_regions)]

\* mutant: a region that ends exactly at the L1 size is rejected
validate_cb_space_off_by_one(device, core, cb_space) ==
    IF cb_space[2] >= device.l1_size
    THEN Some(Log("Local buffers on core grow beyond max L1 size",
                  <<core[1], core[2], cb_space[2], device.l1_size>>))
    ELSE IF device.num_banks[core] # 1
    THEN Some(Log("Expected one bank on core that holds local and L1 buffers",
                  <<core[1], core[2], device.num_banks[core]>>))
    ELSE IF has_value(device.lowest_occupied_l1_address)
            /\ value(device.lowest_occupied_l1_address) < cb_space[2]
    THEN Some(Log("Circular buffers in program clash with L1 buffers on core",
                  <<core[1], core[2], value(device.lowest_occupied_l1_address), cb_space[2]>>))
    ELSE Nullopt

\* the lambda validate_cb_space_and_l1_buffer_space_disjoint: what it logs
\* fatally, or nullopt when the core passes
validate_cb_space_and_l1_buffer_space_disjoint(device, core, cb_space) ==
    IF cb_space[2] > device.l1_size
    THEN Some(Log("Local buffers on core grow beyond max L1 size",
                  <<core[1], core[2], cb_space[2], device.l1_size>>))
    ELSE IF device.num_banks[core] # 1
    THEN Some(Log("Expected one bank on core that holds local and L1 buffers",
                  <<core[1], core[2], device.num_banks[core]>>))
    ELSE IF has_value(device.lowest_occupied_l1_address)
            /\ value(device.lowest_occupied_l1_address) < cb_space[2]
    THEN Some(Log("Circular buffers in program clash with L1 buffers on core",
                  <<core[1], core[2], value(device.lowest_occupied_l1_address), cb_space[2]>>))
    ELSE Nullopt

RECURSIVE ValidateAllCores(_, _)
\* for (const auto &[core, cb_config] : this->per_core_cb_allocator_), in map order
ValidateAllCores(device, todo) ==
    IF todo = {} THEN Nullopt
    ELSE LET core == CHOOSE c \in todo : \A d \in todo : d = c \/ CoreLess(c, d)
             r == validate_cb_space_and_l1_buffer_space_disjoint(
                      device, core, highest_cb_l1_region(core))
         IN  IF has_value(r) THEN r ELSE ValidateAllCores(device, todo \ {core})

validate_circular_buffer_region(device, logical_core) ==
    /\ status = "ok"
    /\ call' = [op |-> "validate_circular_buffer_region", args |-> <<device, logical_core>>]
    /\ LET r == IF has_value(logical_core)
                THEN validate_cb_space_and_l1_buffer_space_disjoint(
                         device, value(logical_core), highest_cb_l1_region(value(logical_core)))
                ELSE ValidateAllCores(device, DOMAIN per_core_cb_allocator_)
       IN  IF has_value(r)
           THEN status' = "fatal" /\ fatal_log' = value(r)
           ELSE UNCHANGED <<status, fatal_log>>
    /\ UNCHANGED <<cbVars, compile_needed_, kernelVars, compileVars, fwVars, semaphores_>>

\* ---------------------------------------------------- kernels and groups
Processors == {"BRISC", "NCRISC", "COMPUTE"}

\* the launch_msg member of a KernelGroup before its constructor body runs:
\* the launch-message template with no role enabled
DefaultLaunchMsg ==
    [enable_brisc |-> FALSE, enable_ncrisc |-> FALSE, enable_triscs |-> FALSE, run |-> "unset"]

\* KernelGroup::KernelGroup: no role assigned, launch_msg.run = RUN_MSG_GO
NewKernelGroup ==
    [riscv0_id |-> Nullopt, riscv1_id |-> Nullopt, compute_id |-> Nullopt,
     launch_msg |-> [DefaultLaunchMsg EXCEPT !.run = "RUN_MSG_GO"]]

\* KernelGroup::update: the role's id is overwritten, whatever it held
update(kernel_group, kernel) ==
    IF kernel.processor = "BRISC"
    THEN [kernel_group EXCEPT !.riscv0_id = Some(kernel.id), !.launch_msg.enable_brisc = TRUE]
    ELSE IF kernel.processor = "NCRISC"
    THEN [kernel_group EXCEPT !.riscv1_id = Some(kernel.id), !.launch_msg.enable_ncrisc = TRUE]
    ELSE [kernel_group EXCEPT !.compute_id = Some(kernel.id), !.launch_msg.enable_triscs = TRUE]

RECURSIVE UpdateCores(_, _, _, _)
\* for (auto core : kernel->logical_cores()) core_to_kernel_group_[core].update(kernel)
UpdateCores(groups, kernel, cores, k) ==
    IF k > Len(cores) THEN groups
    ELSE LET kernel_group == IF cores[k] \in DOMAIN groups THEN groups[cores[k]]
                             ELSE NewKernelGroup
         IN  UpdateCores(Put(groups, cores[k], update(kernel_group, kernel)), kernel, cores, k + 1)

RECURSIVE ComputeGroups(_, _, _)
\* for (auto &[kernel_id, kernel] : this->kernel_by_id_), ascending kernel id
ComputeGroups(groups, kernels, todo) ==
    IF todo = {} THEN groups
    ELSE LET kernel_id == CHOOSE i \in todo : \A j \in todo : i <= j
         IN  ComputeGroups(UpdateCores(groups, kernels[kernel_id],
                                       CoreSeq(kernels[kernel_id].core_range_set), 1),
                           kernels, todo \ {kernel_id})

\* what Program::core_to_kernel_group() leaves in core_to_kernel_group_ and returns
GroupsOf(cache, kernels) ==
    IF DOMAIN cache = {} THEN ComputeGroups(cache, kernels, DOMAIN kernels) ELSE cache

\* mutant: add_kernel leaves the cached mapping in place
AddKernel_keep_cache(k, kernel) ==
    [kernel_ids_ |-> Append(k.kernel_ids_, kernel.id),
     core_to_kernel_group_ |-> k.core_to_kernel_group_,
     kernel_by_id_ |-> Put(k.kernel_by_id_, kernel.id, kernel)]

\* Program::add_kernel on the three kernel containers
AddKernel(k, kernel) ==
    [kernel_ids_ |-> Append(k.kernel_ids_, kernel.id),
     core_to_kernel_group_ |-> <<>>,
     kernel_by_id_ |-> Put(k.kernel_by_id_, kernel.id, kernel)]

\* Kernel ids are unique and otherwise arbitrary (they only label and order the
\* kernels): a new kernel sorts before or after the ones already in kernel_by_id_.
FreshKernelIds(kernels) ==
    IF DOMAIN kernels = {} THEN {0}
    ELSE {(CHOOSE i \in DOMAIN kernels : \A j \in DOMAIN kernels : i <= j) - 1,
          (CHOOSE i \in DOMAIN kernels : \A j \in DOMAIN kernels : j <= i) + 1}

NumUserKernels ==
    Cardinality({i \in DOMAIN kernel_by_id_ : kernel_by_id_[i].name # "blank"})

\* CreateDataMovementKernel / CreateComputeKernel called by a user of the Program
add_kernel(processor, core_range_set) ==
    /\ status = "ok"
    /\ NumUserKernels < MaxKernels
    /\ \E id \in FreshKernelIds(kernel_by_id_) :
          LET kernel == [id |-> id, processor |-> processor,
                         core_range_set |-> core_range_set, name |-> "user"]
              r == AddKernel([kernel_ids_ |-> kernel_ids_, kernel_by_id_ |-> kernel_by_id_,
                              core_to_kernel_group_ |-> core_to_kernel_group_], kernel)
          IN  /\ kernel_ids_' = r.kernel_ids_
              /\ kernel_by_id_' = r.kernel_by_id_
              /\ core_to_kernel_group_' = r.core_to_kernel_group_
              /\ call' = [op |-> "add_kernel", args |-> <<id>>]
    /\ compile_needed_' = TRUE
    /\ UNCHANGED <<cbVars, status, fatal_log, compileVars, fwVars, semaphores_>>

core_to_kernel_group ==
    /\ status = "ok"
    /\ core_to_kernel_group_' = GroupsOf(core_to_kernel_group_, kernel_by_id_)
    /\ call' = [op |-> "core_to_kernel_group", args |-> <<>>]
    /\ UNCHANGED <<cbVars, compile_needed_, status, fatal_log, kernel_ids_, kernel_by_id_>>
    /\ UNCHANGED <<compileVars, fwVars, semaphores_>>

\* Program::kernels_on_core: the group of the core, or nullptr
kernels_on_core(core) ==
    /\ status = "ok"
    /\ LET kernel_groups == GroupsOf(core_to_kernel_group_, kernel_by_id_)
       IN  /\ core_to_kernel_group_' = kernel_groups
           /\ call' = [op |-> "kernels_on_core",
                       args |-> <<core, IF core \in DOMAIN kernel_groups
                                        THEN Some(kernel_groups[core]) ELSE Nullopt>>]
    /\ UNCHANGED <<cbVars, compile_needed_, status, fatal_log, kernel_ids_, kernel_by_id_>>
    /\ UNCHANGED <<compileVars, fwVars, semaphores_>>

RoleId(kernel_group, processor) ==
    IF processor = "BRISC" THEN kernel_group.riscv0_id
    ELSE IF processor = "NCRISC" THEN kernel_group.riscv1_id
    ELSE kernel_group.compute_id

\* mutant: the compute test looks at riscv1_id (copied from the line above)
CoresWithout_copied_test(groups, processor) ==
    {core \in DOMAIN groups :
        ~has_value(RoleId(groups[core], IF processor = "COMPUTE" THEN "NCRISC" ELSE processor))}

\* unique_core_ranges_without_{brisc,ncrisc,compute}_kernel, as cores
CoresWithout(groups, processor) ==
    {core \in DOMAIN groups : ~has_value(RoleId(groups[core], processor))}

RECURSIVE AddBlanks(_, _, _, _, _)
\* the three "if (not unique_core_ranges_without_..._kernel.empty())" blocks, in
\* the order BRISC, NCRISC, COMPUTE; returns every choice of fresh kernel ids
AddBlanks(k, blank_ids, groups, processors, n) ==
    IF n > Len(processors) THEN {[program |-> k, blank_ids |-> blank_ids]}
    ELSE LET missing == CoresWithout(groups, processors[n])
         IN  IF missing = {} THEN AddBlanks(k, blank_ids, groups, processors, n + 1)
             ELSE UNION {AddBlanks(
                            AddKernel(k, [id |-> id, processor |-> processors[n],
                                          core_range_set |->
                                              {[start |-> c, end |-> c] : c \in missing},
                                          name |-> "blank"]),
                            Append(blank_ids, id), groups, processors, n + 1) :
                         id \in FreshKernelIds(k.kernel_by_id_)}

add_blank_kernels ==
    /\ status = "ok"
    /\ LET groups == GroupsOf(core_to_kernel_group_, kernel_by_id_)
       IN  \E r \in AddBlanks([kernel_ids_ |-> kernel_ids_, kernel_by_id_ |-> kernel_by_id_,
                               core_to_kernel_group_ |-> groups],
                              <<>>, groups, <<"BRISC", "NCRISC", "COMPUTE">>, 1) :
              /\ kernel_ids_' = r.program.kernel_ids_
              /\ kernel_by_id_' = r.program.kernel_by_id_
              /\ core_to_kernel_group_' = r.program.core_to_kernel_group_
              /\ call' = [op |-> "add_blank_kernels", args |-> <<r.blank_ids>>]
              /\ compile_needed_' = IF r.blank_ids = <<>> THEN compile_needed_ ELSE TRUE
    /\ UNCHANGED <<cbVars, status, fatal_log, compileVars, fwVars, semaphores_>>

\* ------------------------------------------------------- compile pipeline
\* Two Programs of one process: "this" one is held in the variables above,
\* the "other" one in other_program.
ProgramIds == {"this", "other"}

\* Program::Program(): no kernel, no buffer, both flags clear
NewProgram ==
    [compile_needed_ |-> FALSE, circular_buffer_allocation_needed_ |-> FALSE,
     circular_buffers_ |-> <<>>, kernel_ids_ |-> <<>>, kernel_by_id_ |-> <<>>,
     core_to_kernel_group_ |-> <<>>]

ThisProgram ==
    [compile_needed_ |-> compile_needed_,
     circular_buffer_allocation_needed_ |-> circular_buffer_allocation_needed_,
     circular_buffers_ |-> circular_buffers_, kernel_ids_ |-> kernel_ids_,
     kernel_by_id_ |-> kernel_by_id_, core_to_kernel_group_ |-> core_to_kernel_group_]

ProgramOf(p) == IF p = "this" THEN ThisProgram ELSE other_program

\* what compile() writes back to the Program: the kernel containers and compile_needed_
StoreProgram(p, program) ==
    IF p = "this"
    THEN /\ compile_needed_' = program.compile_needed_
         /\ kernel_ids_' = program.kernel_ids_
         /\ kernel_by_id_' = program.kernel_by_id_
         /\ core_to_kernel_group_' = program.core_to_kernel_group_
         /\ UNCHANGED other_program
    ELSE /\ other_program' = program
         /\ UNCHANGED <<compile_needed_, kernelVars>>

ProgramUnchanged == UNCHANGED <<compile_needed_, kernelVars, other_program>>

\* a caller that is not inside compile(); tasks and reads keep the futures of
\* its last compile until the next one starts
IdleCompiler == [pc |-> "idle", tasks |-> <<>>, reads |-> <<>>, entered |-> Nullopt]

\* history of the process: runs of the blank build, and per compile hash the
\* kernel compiles that found add() new, that add() made cache hits, that took
\* the persistent-cache branch, and the runs of GenerateBinaries
NoWork == [blank_builds |-> 0, added |-> <<>>, hits |-> <<>>, persistent |-> <<>>,
           generated |-> <<>>]

\* what a compile() call finds when it passes the compile_needed_ gate
Entered(p) ==
    [blank_builds |-> work.blank_builds, kernel_ids_ |-> ProgramOf(p).kernel_ids_]

KernelIdsOf(program) == {program.kernel_ids_[n] : n \in 1 .. Len(program.kernel_ids_)}

\* every configuration of the input sets carries the same data format per slot
data_format(circular_buffer, buffer_index) == "Float16_b"

\* CircularBuffer::is_on_logical_corerange
is_on_logical_corerange(circular_buffer, cr) ==
    CoresOf(circular_buffer.core_ranges) \cap CoresOfRange(cr) # {}

RECURSIVE RangeSeq(_)
\* the ranges of a CoreRangeSet in the order of the std::set
RangeSeq(crs) ==
    IF crs = {} THEN <<>>
    ELSE LET first == CHOOSE r \in crs : \A q \in crs : q = r \/ CoreLess(r.start, q.start)
         IN  <<first>> \o RangeSeq(crs \ {first})

RECURSIVE SetFormatsOnRange(_, _, _, _)
\* for (auto circular_buffer : cbs_on_core) for (auto buffer_index : ...)
\*     build_options.set_cb_dataformat_all_cores(buffer_index, data_format(buffer_index))
SetFormatsOnRange(hlk_desc, cbs, cr, i) ==
    IF i > Len(cbs) THEN hlk_desc
    ELSE SetFormatsOnRange(
             IF is_on_logical_corerange(cbs[i], cr)
             THEN [index \in DOMAIN hlk_desc \cup cbs[i].buffer_indices |->
                      IF index \in cbs[i].buffer_indices THEN data_format(cbs[i], index)
                      ELSE hlk_desc[index]]
             ELSE hlk_desc,
             cbs, cr, i + 1)

RECURSIVE SetFormats(_, _, _, _)
SetFormats(hlk_desc, cbs, ranges, n) ==
    IF n > Len(ranges) THEN hlk_desc
    ELSE SetFormats(SetFormatsOnRange(hlk_desc, cbs, ranges[n], 1), cbs, ranges, n + 1)

\* Program::set_cb_data_fmt: the data formats it leaves in build_options.hlk_desc
set_cb_data_fmt(program, kernel) ==
    SetFormats(<<>>, program.circular_buffers_, RangeSeq(kernel.core_range_set), 1)

\* Kernel::compute_hash: the kernel's own structural hash, one per source and processor
compute_hash(kernel) == <<kernel.name, kernel.processor>>

\* KernelCompileHash: a hash of the merged options and the structural hash,
\* kept as the pair itself (no collisions)
KernelCompileHash(kernel, hlk_desc) == <<hlk_desc, compute_hash(kernel)>>

\* kernel->name() + "/" + std::to_string(kernel_hash)
KernelPathSuffix(kernel, kernel_hash) == <<kernel.name, kernel_hash>>

NewTask == [pc |-> "start", kernel_hash |-> <<>>, cache_hit |-> TRUE]

BinariesOf(p, kernel_id) ==
    IF kernel_id \in DOMAIN kernel_binaries[p] THEN kernel_binaries[p][kernel_id]
    ELSE [binary_path |-> Nullopt, binaries |-> FALSE]

\* kernel->set_binary_path(kernel_path_suffix)
set_binary_path(p, kernel_id, kernel_path_suffix) ==
    kernel_binaries' = [kernel_binaries EXCEPT ![p] =
        Put(@, kernel_id, [BinariesOf(p, kernel_id) EXCEPT !.binary_path = Some(kernel_path_suffix)])]

Count(bag, e) == IF e \in DOMAIN bag THEN bag[e] ELSE 0
Counted(bag, e) == Put(bag, e, Count(bag, e) + 1)

\* mutant: the gate is gone, compile always runs the pipeline
CompileNeeded_always(program) == TRUE

\* if( !compile_needed_) return;
CompileNeeded(program) == program.compile_needed_

DeviceNotInitializedMsg == "Device needs to be initialized before program compilation"
PrintServerMsg == "Debug print server is running, profiling is not allowed"
GenerateFailedMsg == "Failed to generate binaries for"

\* Program::compile up to the test of the static flag inside CompileBlankKernel:
\* the compile_needed_ gate, the assertion on the device, `if (compiled) return`
compile(p, device) ==
    /\ status = "ok"
    /\ compiler[p].pc = "idle"
    /\ call' = [op |-> "compile", args |-> <<p, device, ProgramOf(p).compile_needed_>>]
    /\ IF ~CompileNeeded(ProgramOf(p))
       THEN UNCHANGED <<compiler, status, fatal_log>>
       ELSE IF ~device.is_initialized
       THEN /\ status' = "fatal"
            /\ fatal_log' = Log(DeviceNotInitializedMsg, <<p>>)
            /\ compiler' = [compiler EXCEPT ![p] =
                   [IdleCompiler EXCEPT !.pc = "dead", !.entered = Some(Entered(p))]]
       ELSE /\ compiler' = [compiler EXCEPT ![p] =
                   [IdleCompiler EXCEPT !.pc = IF compiled THEN "CompileProgram" ELSE "blank_op",
                                        !.entered = Some(Entered(p))]]
            /\ UNCHANGED <<status, fatal_log>>
    /\ ProgramUnchanged
    /\ UNCHANGED <<cbVars, kernel_binaries, worker_crs_, compiled, hash_lookup, outpath,
                   enable_persistent_kernel_cache, work, fwVars, semaphores_>>

\* the body of detail::CompileBlankKernel after the test of the static flag:
\* the blank image is built, then compiled = true
CompileBlankKernel(p) ==
    /\ status = "ok"
    /\ compiler[p].pc = "blank_op"
    /\ work' = [work EXCEPT !.blank_builds = @ + 1]
    /\ compiled' = TRUE
    /\ compiler' = [compiler EXCEPT ![p].pc = "CompileProgram"]
    /\ UNCHANGED call
    /\ ProgramUnchanged
    /\ UNCHANGED <<cbVars, status, fatal_log, kernel_binaries, worker_crs_, hash_lookup, outpath,
                   enable_persistent_kernel_cache, fwVars, semaphores_>>

\* Program::compile from the profiler test to the end of the loop that starts
\* one asynchronous compile per kernel id (blank kernels included)
compile_all_kernels(p, profile_kernel, print_server_running) ==
    /\ status = "ok"
    /\ compiler[p].pc = "CompileProgram"
    /\ UNCHANGED call
    /\ IF profile_kernel /\ print_server_running
       THEN /\ status' = "fatal"
            /\ fatal_log' = Log(PrintServerMsg, <<p>>)
            /\ compiler' = [compiler EXCEPT ![p].pc = "dead"]
            /\ ProgramUnchanged
       ELSE LET program == ProgramOf(p)
                groups == GroupsOf(program.core_to_kernel_group_, program.kernel_by_id_)
            IN  \E r \in AddBlanks([kernel_ids_ |-> program.kernel_ids_,
                                    kernel_by_id_ |-> program.kernel_by_id_,
                                    core_to_kernel_group_ |-> groups],
                                   <<>>, groups, <<"BRISC", "NCRISC", "COMPUTE">>, 1) :
                   /\ StoreProgram(p, [program EXCEPT
                          !.kernel_ids_ = r.program.kernel_ids_,
                          !.kernel_by_id_ = r.program.kernel_by_id_,
                          !.core_to_kernel_group_ = r.program.core_to_kernel_group_])
                   /\ compiler' = [compiler EXCEPT
                          ![p].pc = "compile",
                          ![p].tasks = [kernel_id \in KernelIdsOf(r.program) |-> NewTask]]
                   /\ UNCHANGED <<status, fatal_log>>
    /\ UNCHANGED <<cbVars, kernel_binaries, worker_crs_, compiled, hash_lookup, outpath,
                   enable_persistent_kernel_cache, work, fwVars, semaphores_>>

\* the asynchronous compile of one kernel, up to its first use of the ledger:
\* build options, set_cb_data_fmt, KernelCompileHash, path_exists and the
\* choice between the persistent-cache branch and HashLookup::add
kernel_compile_hash(p, kernel_id) ==
    /\ status = "ok"
    /\ compiler[p].pc = "compile"
    /\ kernel_id \in DOMAIN compiler[p].tasks
    /\ compiler[p].tasks[kernel_id].pc = "start"
    /\ LET program == ProgramOf(p)
           kernel == program.kernel_by_id_[kernel_id]
           kernel_hash == KernelCompileHash(kernel, set_cb_data_fmt(program, kernel))
           path_exists == KernelPathSuffix(kernel, kernel_hash) \in outpath
       IN  compiler' = [compiler EXCEPT ![p].tasks[kernel_id] =
               [pc |-> IF enable_persistent_kernel_cache /\ path_exists THEN "persistent" ELSE "add",
                kernel_hash |-> kernel_hash, cache_hit |-> TRUE]]
    /\ UNCHANGED call
    /\ ProgramUnchanged
    /\ UNCHANGED <<cbVars, status, fatal_log, kernel_binaries, worker_crs_, compiled, hash_lookup,
                   outpath, enable_persistent_kernel_cache, work, fwVars, semaphores_>>

\* detail::HashLookup::add: records the hash, tells whether it was new
HashLookup_add(ledger, kernel_hash) ==
    [ledger |-> ledger \cup {kernel_hash}, new |-> kernel_hash \notin ledger]

\* mutant: the result of add() is ignored, every kernel outside the persistent
\* branch is a cache miss
CacheMiss_ignore_new(branch, new) == branch = "add"

\* else if (HashLookup::inst().add(kernel_hash)): cache miss when the else
\* branch is taken and add() reports the hash as new
CacheMiss(branch, new) == branch = "add" /\ new

\* the asynchronous compile of one kernel at the ledger: in the persistent
\* branch the hash is added when absent and the kernel is a cache hit; else
\* add() decides between cache miss (GenerateBinaries follows) and cache hit
kernel_compile_lookup(p, kernel_id) ==
    /\ status = "ok"
    /\ compiler[p].pc = "compile"
    /\ kernel_id \in DOMAIN compiler[p].tasks
    /\ compiler[p].tasks[kernel_id].pc \in {"persistent", "add"}
    /\ LET task == compiler[p].tasks[kernel_id]
           kernel == ProgramOf(p).kernel_by_id_[kernel_id]
           added == HashLookup_add(hash_lookup, task.kernel_hash)
       IN  /\ hash_lookup' = added.ledger
           /\ IF CacheMiss(task.pc, added.new)
              THEN /\ compiler' = [compiler EXCEPT ![p].tasks[kernel_id].pc = "GenerateBinaries",
                                                   ![p].tasks[kernel_id].cache_hit = FALSE]
                   /\ work' = [work EXCEPT !.added = Counted(@, task.kernel_hash)]
                   /\ UNCHANGED kernel_binaries
              ELSE /\ compiler' = [compiler EXCEPT ![p].tasks[kernel_id].pc = "done"]
                   /\ work' = IF task.pc = "add"
                              THEN [work EXCEPT !.hits = Counted(@, task.kernel_hash)]
                              ELSE [work EXCEPT !.persistent = Counted(@, task.kernel_hash)]
                   /\ set_binary_path(p, kernel_id, KernelPathSuffix(kernel, task.kernel_hash))
    /\ UNCHANGED call
    /\ ProgramUnchanged
    /\ UNCHANGED <<cbVars, status, fatal_log, worker_crs_, compiled, outpath,
                   enable_persistent_kernel_cache, fwVars, semaphores_>>

\* GenerateBinaries for one kernel: the binaries appear under outpath, or the
\* build throws and the failure is logged fatally
GenerateBinaries(p, kernel_id, thrown) ==
    /\ status = "ok"
    /\ compiler[p].pc = "compile"
    /\ kernel_id \in DOMAIN compiler[p].tasks
    /\ compiler[p].tasks[kernel_id].pc = "GenerateBinaries"
    /\ LET task == compiler[p].tasks[kernel_id]
           kernel == ProgramOf(p).kernel_by_id_[kernel_id]
       IN  /\ work' = [work EXCEPT !.generated = Counted(@, task.kernel_hash)]
           /\ IF thrown
              THEN /\ status' = "fatal"
                   /\ fatal_log' = Log(GenerateFailedMsg, <<kernel.name>>)
                   /\ UNCHANGED <<compiler, outpath, kernel_binaries>>
              ELSE /\ outpath' = outpath \cup {KernelPathSuffix(kernel, task.kernel_hash)}
                   /\ compiler' = [compiler EXCEPT ![p].tasks[kernel_id].pc = "done"]
                   /\ set_binary_path(p, kernel_id, KernelPathSuffix(kernel, task.kernel_hash))
                   /\ UNCHANGED <<status, fatal_log>>
    /\ UNCHANGED call
    /\ ProgramUnchanged
    /\ UNCHANGED <<cbVars, worker_crs_, compiled, hash_lookup,
                   enable_persistent_kernel_cache, fwVars, semaphores_>>

AllDone(tasks) == \A kernel_id \in DOMAIN tasks : tasks[kernel_id].pc = "done"

\* mutant: the first `for (auto & f : events) f.wait();` is missing
CompilesWaited_no_wait(tasks) == TRUE

\* for (auto & f : events) f.wait(): every compile future is ready
CompilesWaited(tasks) == AllDone(tasks)

\* Program::compile between the two barriers: waits for every compile, then
\* starts one asynchronous read_binaries per kernel id
compile_read_all(p) ==
    /\ status = "ok"
    /\ compiler[p].pc = "compile"
    /\ CompilesWaited(compiler[p].tasks)
    /\ compiler' = [compiler EXCEPT
           ![p].pc = "read",
           ![p].reads = [kernel_id \in KernelIdsOf(ProgramOf(p)) |-> [pc |-> "start"]]]
    /\ UNCHANGED call
    /\ ProgramUnchanged
    /\ UNCHANGED <<cbVars, status, fatal_log, kernel_binaries, worker_crs_, compiled, hash_lookup,
                   outpath, enable_persistent_kernel_cache, work, fwVars, semaphores_>>

\* kernel->read_binaries(device->id()), asynchronous
read_binaries(p, kernel_id) ==
    /\ status = "ok"
    /\ compiler[p].pc = "read"
    /\ kernel_id \in DOMAIN compiler[p].reads
    /\ compiler[p].reads[kernel_id].pc = "start"
    /\ compiler' = [compiler EXCEPT ![p].reads[kernel_id].pc = "done"]
    /\ kernel_binaries' = [kernel_binaries EXCEPT ![p] =
           Put(@, kernel_id, [BinariesOf(p, kernel_id) EXCEPT !.binaries = TRUE])]
    /\ UNCHANGED call
    /\ ProgramUnchanged
    /\ UNCHANGED <<cbVars, status, fatal_log, worker_crs_, compiled, hash_lookup,
                   outpath, enable_persistent_kernel_cache, work, fwVars, semaphores_>>

\* mutant: the second `for (auto & f : events) f.wait();` is missing
BinariesWaited_no_wait(tasks, reads) == TRUE

\* for (auto & f : events) f.wait(), over the compile and the read futures
BinariesWaited(tasks, reads) == AllDone(tasks) /\ AllDone(reads)

\* Program::construct_core_range_set_for_worker_cores, as the cores covered
WorkerCores(program) ==
    UNION {CoresOf(program.kernel_by_id_[kernel_id].core_range_set) :
             kernel_id \in DOMAIN program.kernel_by_id_}

\* Program::compile after the second barrier: worker_crs_, compile_needed_ = false
compile_done(p) ==
    /\ status = "ok"
    /\ compiler[p].pc = "read"
    /\ BinariesWaited(compiler[p].tasks, compiler[p].reads)
    /\ worker_crs_' = [worker_crs_ EXCEPT ![p] = @ \cup WorkerCores(ProgramOf(p))]
    /\ StoreProgram(p, [ProgramOf(p) EXCEPT !.compile_needed_ = FALSE])
    /\ compiler' = [compiler EXCEPT ![p].pc = "idle"]
    /\ call' = [op |-> "compile_done", args |-> <<p>>]
    /\ UNCHANGED <<cbVars, status, fatal_log, kernel_binaries, compiled, hash_lookup,
                   outpath, enable_persistent_kernel_cache, work, fwVars, semaphores_>>

EnablePersistentKernelCache ==
    /\ status = "ok"
    /\ enable_persistent_kernel_cache' = TRUE
    /\ call' = [op |-> "EnablePersistentKernelCache", args |-> <<>>]
    /\ ProgramUnchanged
    /\ UNCHANGED <<cbVars, status, fatal_log, compiler, kernel_binaries, worker_crs_, compiled,
                   hash_lookup, outpath, work, fwVars, semaphores_>>

DisablePersistentKernelCache ==
    /\ status = "ok"
    /\ enable_persistent_kernel_cache' = FALSE
    /\ call' = [op |-> "DisablePersistentKernelCache", args |-> <<>>]
    /\ ProgramUnchanged
    /\ UNCHANGED <<cbVars, status, fatal_log, compiler, kernel_binaries, worker_crs_, compiled,
                   hash_lookup, outpath, work, fwVars, semaphores_>>

\* ------------------------------------------------------ dispatch firmware
\* u32 words hold the values of the input sets and what the routines add to
\* them without wrapping: every sum below stays far under 2^32

\* the dispatcher core between two firmware routines
IdleFirmware == [op |-> "idle"]

HostUnchanged ==
    UNCHANGED <<cbVars, compile_needed_, kernelVars, status, fatal_log, call, compileVars,
                semaphores_>>

\* command_ptr[offset]
Word(offset) == command_stream[command_ptr + offset]

\* mutant: the chunk is never cut to the burst size
min_second(a, b) == b

\* min(T a, T b)
min(a, b) == IF a < b THEN a ELSE b

\* the NOC calls of the firmware, as they are logged: `by` and `at` name the
\* routine and the record it executes
Noc(op, src, dst, size, num_dests) ==
    [op |-> op, src |-> src, dst |-> dst, size |-> size, num_dests |-> num_dests,
     by |-> fw.op, at |-> fw.at]
\* mutant: the barriers do not wait
Barrier_none(op) == [op |-> "nop", by |-> fw.op, at |-> fw.at]

Barrier(op) == [op |-> op, by |-> fw.op, at |-> fw.at]

\* one iteration of the loop of write_buffers / read_buffers up to the call of
\* write_buffer / read_buffer: the eight words of the record become its
\* arguments; a buf_type other than 0 and 1 skips the record
buffers_record(routine) ==
    /\ fw.op = "idle"
    /\ command_ptr + 7 <= Len(command_stream)
    /\ IF Word(7) \in {0, 1}
       THEN /\ fw' = [op |-> routine, at |-> command_ptr,
                      addr |-> Word(0), noc |-> Word(1), bank_base_address |-> Word(2),
                      padded_buf_size |-> Word(3), burst_size |-> Word(4),
                      page_size |-> Word(5), padded_page_size |-> Word(6),
                      buf_type |-> Word(7), bank_id |-> 0]
            /\ UNCHANGED command_ptr
       ELSE /\ command_ptr' = command_ptr + 8
            /\ UNCHANGED fw
    /\ HostUnchanged
    /\ UNCHANGED <<noc_log, command_stream, dispatch_message, workers, finish_ptr,
                 host_cq_finish>>

write_buffers == buffers_record("write_buffer")
read_buffers == buffers_record("read_buffer")

\* mutant: the loop test is i <= size
PageOffsets_inclusive(size, padded_page_size) ==
    [k \in 1 .. ((size \div padded_page_size) + 1) |-> (k - 1) * padded_page_size]

\* for (u32 i = 0; i < size; i += padded_page_size): the values of i
PageOffsets(size, padded_page_size) ==
    [k \in 1 .. ((size + padded_page_size - 1) \div padded_page_size) |->
        (k - 1) * padded_page_size]

\* mutant: local_addr is not advanced
PageLocalAddr_fixed(offset) == DEVICE_COMMAND_DATA_ADDR

\* local_addr at the page that starts `offset` bytes into the chunk
PageLocalAddr(offset) == DEVICE_COMMAND_DATA_ADDR + offset

\* one iteration of the while loop of write_buffer: a chunk is read into the
\* staging region, its pages are written to their banks
write_buffer ==
    /\ fw.op = "write_buffer"
    /\ fw.padded_buf_size > 0
    /\ LET read_size == min(fw.burst_size, fw.padded_buf_size)
           offsets == PageOffsets(read_size, fw.padded_page_size)
       IN  /\ noc_log' = noc_log
                 \o << Noc("noc_async_read", <<fw.noc, fw.addr>>, DEVICE_COMMAND_DATA_ADDR,
                           read_size, 1),
                       Barrier("noc_async_read_barrier") >>
                 \o [k \in DOMAIN offsets |->
                        Noc("noc_async_write", PageLocalAddr(offsets[k]),
                            <<fw.buf_type, fw.bank_base_address, fw.bank_id + k - 1>>,
                            fw.page_size, 1)]
                 \o << Barrier("noc_async_write_barrier") >>
           /\ fw' = [fw EXCEPT !.padded_buf_size = @ - read_size,
                               !.addr = @ + read_size,
                               !.bank_id = @ + Len(offsets)]
    /\ HostUnchanged
    /\ UNCHANGED <<command_stream, command_ptr, dispatch_message, workers, finish_ptr,
                 host_cq_finish>>

\* one iteration of the while loop of read_buffer: the pages of a chunk are
\* read from their banks into the staging region, the chunk is written out
read_buffer ==
    /\ fw.op = "read_buffer"
    /\ fw.padded_buf_size > 0
    /\ LET write_size == min(fw.burst_size, fw.padded_buf_size)
           offsets == PageOffsets(write_size, fw.padded_page_size)
       IN  /\ noc_log' = noc_log
                 \o [k \in DOMAIN offsets |->
                        Noc("noc_async_read",
                            <<fw.buf_type, fw.bank_base_address, fw.bank_id + k - 1>>,
                            PageLocalAddr(offsets[k]), fw.page_size, 1)]
                 \o << Barrier("noc_async_read_barrier"),
                       Noc("noc_async_write", DEVICE_COMMAND_DATA_ADDR, <<fw.noc, fw.addr>>,
                           write_size, 1),
                       Barrier("noc_async_write_barrier") >>
           /\ fw' = [fw EXCEPT !.padded_buf_size = @ - write_size,
                               !.addr = @ + write_size,
                               !.bank_id = @ + Len(offsets)]
    /\ HostUnchanged
    /\ UNCHANGED <<command_stream, command_ptr, dispatch_message, workers, finish_ptr,
                 host_cq_finish>>

\* write_buffer / read_buffer returns when padded_buf_size is 0; command_ptr += 8
buffer_return ==
    /\ fw.op \in {"write_buffer", "read_buffer"}
    /\ fw.padded_buf_size = 0
    /\ fw' = IdleFirmware
    /\ command_ptr' = command_ptr + 8
    /\ HostUnchanged
    /\ UNCHANGED <<noc_log, command_stream, dispatch_message, workers, finish_ptr,
                 host_cq_finish>>

\* write_program: the loop over the relays starts
write_program(num_program_relays) ==
    /\ fw.op = "idle"
    /\ command_ptr = 1
    /\ fw' = [op |-> "write_program", at |-> command_ptr, pc |-> "relay", relay |-> 0,
              num_program_relays |-> num_program_relays]
    /\ HostUnchanged
    /\ UNCHANGED <<noc_log, command_stream, command_ptr, dispatch_message, workers, finish_ptr,
                 host_cq_finish>>

\* one iteration of the loop of write_program up to the loop inside
\* write_program_section: the four words of the relay, command_ptr += 4, the
\* read of the section into the staging region and its barrier
write_program_relay ==
    /\ fw.op = "write_program"
    /\ fw.pc = "relay"
    /\ fw.relay < fw.num_program_relays
    /\ LET section == [fw EXCEPT !.at = command_ptr, !.pc = "section"]
       IN  /\ fw' = [op |-> "write_program", at |-> command_ptr, pc |-> "section",
                     relay |-> fw.relay, num_program_relays |-> fw.num_program_relays,
                     src |-> Word(0), src_noc |-> Word(1), transfer_size |-> Word(2),
                     num_writes |-> Word(3), write |-> 0]
           /\ noc_log' = noc_log \o
                 << [op |-> "noc_async_read", src |-> <<Word(1), Word(0)>>,
                     dst |-> DEVICE_COMMAND_DATA_ADDR, size |-> Word(2), num_dests |-> 1,
                     by |-> section.op, at |-> section.at],
                    [op |-> "noc_async_read_barrier", by |-> section.op, at |-> section.at] >>
    /\ command_ptr' = command_ptr + 4
    /\ HostUnchanged
    /\ UNCHANGED <<command_stream, dispatch_message, workers, finish_ptr,
                 host_cq_finish>>

\* mutant: the multicast takes the transfer size of the relay, not of the sub-write
SubWrite_relay_size(section, src, dst, dst_noc, transfer_size, num_receivers) ==
    [op |-> "noc_async_write_multicast", src |-> src, dst |-> <<dst_noc, dst>>,
     size |-> section.transfer_size, num_dests |-> num_receivers,
     by |-> section.op, at |-> section.at]

\* noc_async_write_multicast(src, u64(dst_noc) << 32 | dst, transfer_size, num_receivers)
\* with the locals of the loop body, which shadow the arguments of the function
SubWrite(section, src, dst, dst_noc, transfer_size, num_receivers) ==
    [op |-> "noc_async_write_multicast", src |-> src, dst |-> <<dst_noc, dst>>,
     size |-> transfer_size, num_dests |-> num_receivers,
     by |-> section.op, at |-> section.at]

\* one iteration of the loop of write_program_section: the five words of the
\* sub-write, command_ptr += 5, the multicast
write_program_section ==
    /\ fw.op = "write_program"
    /\ fw.pc = "section"
    /\ fw.write < fw.num_writes
    /\ noc_log' = Append(noc_log, SubWrite(fw, Word(0), Word(1), Word(2), Word(3), Word(4)))
    /\ command_ptr' = command_ptr + 5
    /\ fw' = [fw EXCEPT !.write = @ + 1]
    /\ HostUnchanged
    /\ UNCHANGED <<command_stream, dispatch_message, workers, finish_ptr,
                 host_cq_finish>>

\* write_program_section after its loop: the write barrier, the return to the
\* loop of write_program
write_program_section_barrier ==
    /\ fw.op = "write_program"
    /\ fw.pc = "section"
    /\ fw.write = fw.num_writes
    /\ noc_log' = Append(noc_log, Barrier("noc_async_write_barrier"))
    /\ fw' = [op |-> "write_program", at |-> fw.at, pc |-> "relay", relay |-> fw.relay + 1,
              num_program_relays |-> fw.num_program_relays]
    /\ HostUnchanged
    /\ UNCHANGED <<command_stream, command_ptr, dispatch_message, workers, finish_ptr,
                 host_cq_finish>>

\* write_program returns after its last relay
write_program_return ==
    /\ fw.op = "write_program"
    /\ fw.pc = "relay"
    /\ fw.relay = fw.num_program_relays
    /\ fw' = [op |-> "returned", from |-> "write_program"]
    /\ HostUnchanged
    /\ UNCHANGED <<noc_log, command_stream, command_ptr, dispatch_message, workers, finish_ptr,
                 host_cq_finish>>

\* mutant: the counter is left as the previous command left it
ResetMessage_stale == dispatch_message

\* *message_addr_ptr = 0
ResetMessage == 0

\* launch_program up to its loop: `if (not num_workers) return;` and
\* *message_addr_ptr = 0
launch_program(num_workers, num_multicast_messages) ==
    /\ fw.op = "idle"
    /\ command_ptr = 1
    /\ IF num_workers = 0
       THEN /\ fw' = [op |-> "returned", from |-> "launch_program", num_workers |-> num_workers,
                      message |-> Nullopt]
            /\ UNCHANGED dispatch_message
       ELSE /\ fw' = [op |-> "launch_program", at |-> command_ptr, pc |-> "multicast", i |-> 0,
                      num_workers |-> num_workers,
                      num_multicast_messages |-> num_multicast_messages]
            /\ dispatch_message' = ResetMessage
    /\ HostUnchanged
    /\ UNCHANGED <<noc_log, command_stream, command_ptr, workers, finish_ptr, host_cq_finish>>

\* one iteration of the loop of launch_program: the launch message goes to the
\* num_messages cores of one group, which start running
launch_program_multicast ==
    /\ fw.op = "launch_program"
    /\ fw.pc = "multicast"
    /\ fw.i < fw.num_multicast_messages * 2
    /\ noc_log' = Append(noc_log, Noc("noc_async_write_multicast", "launch_msg",
                                      <<Word(fw.i), "launch">>, "sizeof(launch_msg_t)",
                                      Word(fw.i + 1)))
    /\ workers' = workers + Word(fw.i + 1)
    /\ fw' = [fw EXCEPT !.i = @ + 2]
    /\ HostUnchanged
    /\ UNCHANGED <<command_stream, command_ptr, dispatch_message, finish_ptr, host_cq_finish>>

\* launch_program after its loop: noc_async_write_barrier()
launch_program_barrier ==
    /\ fw.op = "launch_program"
    /\ fw.pc = "multicast"
    /\ fw.i >= fw.num_multicast_messages * 2
    /\ noc_log' = Append(noc_log, Barrier("noc_async_write_barrier"))
    /\ fw' = [fw EXCEPT !.pc = "wait"]
    /\ HostUnchanged
    /\ UNCHANGED <<command_stream, command_ptr, dispatch_message, workers, finish_ptr,
                 host_cq_finish>>

\* mutant: the busy-wait is missing
LaunchDone_no_wait(message, num_workers) == TRUE

\* mutant: the exit test never succeeds
LaunchDone_never(message, num_workers) == FALSE

\* the exit test of `while (*message_addr_ptr != num_workers);`
LaunchDone(message, num_workers) == message = num_workers

\* the busy-wait of launch_program reads the counter and finds it equal to
\* num_workers: launch_program returns
launch_program_return ==
    /\ fw.op = "launch_program"
    /\ fw.pc = "wait"
    /\ LaunchDone(dispatch_message, fw.num_workers)
    /\ fw' = [op |-> "returned", from |-> "launch_program", num_workers |-> fw.num_workers,
              message |-> Some(dispatch_message)]
    /\ HostUnchanged
    /\ UNCHANGED <<noc_log, command_stream, command_ptr, dispatch_message, workers, finish_ptr,
                 host_cq_finish>>

\* a launched worker core finishes and increments the completion counter of
\* the dispatcher
worker_done ==
    /\ workers > 0
    /\ workers' = workers - 1
    /\ dispatch_message' = dispatch_message + 1
    /\ HostUnchanged
    /\ UNCHANGED <<fw, noc_log, command_stream, command_ptr, finish_ptr, host_cq_finish>>

\* get_cq_finish_ptr(): the L1 address of the finish word
CQ_FINISH_PTR == 3000

HOST_CQ_FINISH_PTR == 2000

\* mutant: the store is missing, the word stays as it was
FinishSentinel_stale == finish_ptr

\* finish_ptr[0] = 1
FinishSentinel == 1

\* finish_program up to the NOC write: `if (not finish) return;` and
\* finish_ptr[0] = 1
finish_program(finish) ==
    /\ fw.op = "idle"
    /\ IF finish = 0
       THEN /\ fw' = [op |-> "returned", from |-> "finish_program", finish |-> finish,
                      on_entry |-> <<finish_ptr, host_cq_finish>>]
            /\ UNCHANGED finish_ptr
       ELSE /\ fw' = [op |-> "finish_program", at |-> command_ptr, pc |-> "write",
                      finish |-> finish, on_entry |-> <<finish_ptr, host_cq_finish>>,
                      in_flight |-> FALSE]
            /\ finish_ptr' = FinishSentinel
    /\ HostUnchanged
    /\ UNCHANGED <<noc_log, command_stream, command_ptr, dispatch_message, workers,
                   host_cq_finish>>

\* noc_async_write(u32(finish_ptr), finish_noc_addr, 4)
finish_program_write ==
    /\ fw.op = "finish_program"
    /\ fw.pc = "write"
    /\ noc_log' = Append(noc_log, Noc("noc_async_write", CQ_FINISH_PTR,
                                      <<"pcie", HOST_CQ_FINISH_PTR>>, 4, 0))
    /\ fw' = [fw EXCEPT !.pc = "barrier", !.in_flight = TRUE]
    /\ HostUnchanged
    /\ UNCHANGED <<command_stream, command_ptr, dispatch_message, workers, finish_ptr,
                   host_cq_finish>>

\* the NOC carries out the write: the four bytes at the source address, as
\* they are at that moment, arrive in host memory
noc_write_lands ==
    /\ fw.op = "finish_program"
    /\ fw.in_flight
    /\ host_cq_finish' = finish_ptr
    /\ fw' = [fw EXCEPT !.in_flight = FALSE]
    /\ HostUnchanged
    /\ UNCHANGED <<noc_log, command_stream, command_ptr, dispatch_message, workers,
                   finish_ptr>>

\* noc_async_write_barrier(), which returns when no write is outstanding
finish_program_barrier ==
    /\ fw.op = "finish_program"
    /\ fw.pc = "barrier"
    /\ ~fw.in_flight
    /\ noc_log' = Append(noc_log, Barrier("noc_async_write_barrier"))
    /\ fw' = [fw EXCEPT !.pc = "clear"]
    /\ HostUnchanged
    /\ UNCHANGED <<command_stream, command_ptr, dispatch_message, workers, finish_ptr,
                   host_cq_finish>>

\* finish_ptr[0] = 0, and finish_program returns
finish_program_return ==
    /\ fw.op = "finish_program"
    /\ fw.pc = "clear"
    /\ finish_ptr' = 0
    /\ fw' = [op |-> "returned", from |-> "finish_program", finish |-> fw.finish,
              on_entry |-> fw.on_entry]
    /\ HostUnchanged
    /\ UNCHANGED <<noc_log, command_stream, command_ptr, dispatch_message, workers,
                   host_cq_finish>>

\* ------------------------------------------------------------------ inputs
SizeInputs == {0, 50}
RequestedAddressInputs == {Nullopt, Some(L1_UNRESERVED_BASE + 50)}
IndexSetInputs == {{0}, {1}}

CircularBufferConfigs ==
    [size : SizeInputs, buffer_indices : IndexSetInputs,
     requested_address : RequestedAddressInputs]

\* ------------------------------------------------------------ specification
MaxSemaphores == 1

\* mutant: the semaphore is registered without invalidate_compile()
add_semaphore_no_invalidate(crs, address, init_value) ==
    /\ status = "ok"
    /\ Len(semaphores_) < MaxSemaphores
    /\ semaphores_' = Append(semaphores_, [core_range_set |-> crs, address |-> address,
                                           initial_value |-> init_value])
    /\ call' = [op |-> "add_semaphore", args |-> <<crs, address, init_value>>]
    /\ UNCHANGED <<cbVars, compile_needed_, kernelVars, status, fatal_log, compileVars, fwVars>>

\* Program::add_semaphore: invalidate_compile(), then the Semaphore is appended
add_semaphore(crs, address, init_value) ==
    /\ status = "ok"
    /\ Len(semaphores_) < MaxSemaphores
    /\ compile_needed_' = TRUE
    /\ semaphores_' = Append(semaphores_, [core_range_set |-> crs, address |-> address,
                                           initial_value |-> init_value])
    /\ call' = [op |-> "add_semaphore", args |-> <<crs, address, init_value>>]
    /\ UNCHANGED <<cbVars, kernelVars, status, fatal_log, compileVars, fwVars>>

HostInit ==
    /\ circular_buffers_ = <<>>
    /\ per_core_cb_allocator_ = <<>>
    /\ circular_buffer_allocation_needed_ = FALSE
    /\ compile_needed_ = FALSE
    /\ status = "ok"
    /\ fatal_log = NoLog
    /\ call = NoCall
    /\ first_allocation = Nullopt
    /\ kernel_ids_ = <<>>
    /\ kernel_by_id_ = <<>>
    /\ core_to_kernel_group_ = <<>>
    /\ semaphores_ = <<>>
    /\ other_program = NewProgram
    /\ compiler = [p \in ProgramIds |-> IdleCompiler]
    /\ kernel_binaries = [p \in ProgramIds |-> <<>>]
    /\ worker_crs_ = [p \in ProgramIds |-> {}]
    /\ compiled = FALSE
    /\ hash_lookup = {}
    /\ outpath = {}
    /\ enable_persistent_kernel_cache = FALSE
    /\ work = NoWork

\* the dispatcher core before it executes the command in command_stream
FirmwareInit(stream) ==
    /\ fw = IdleFirmware
    /\ noc_log = <<>>
    /\ command_stream = stream
    /\ command_ptr = 1
    /\ workers = 0

Init ==
    /\ HostInit
    /\ FirmwareInit(<<>>)
    /\ dispatch_message = 0
    /\ finish_ptr = 0
    /\ host_cq_finish = 0

Next ==
    \/ \E crs \in CoreRangeSets, config \in CircularBufferConfigs :
          add_circular_buffer(crs, config)
    \/ invalidate_circular_buffer_allocation
    \/ allocate_circular_buffers

Spec == Init /\ [][Next]_vars

\* ------------------------------------------------------------- properties
Allocated == status = "ok" /\ ~circular_buffer_allocation_needed_

NumCBs == Len(circular_buffers_)
CB(i) == circular_buffers_[i]
SharedCores(i, j) == CoresOf(CB(i).core_ranges) \cap CoresOf(CB(j).core_ranges)

SetMax(S) == CHOOSE x \in S : \A y \in S : y <= x

\* End of the memory occupied on `core` by the buffers registered before the
\* i-th one, from their resolved addresses alone.
OccupiedEndBefore(core, i) ==
    SetMax({L1_UNRESERVED_BASE} \cup
           {value(CB(j).address) + CB(j).size :
              j \in {k \in 1 .. (i - 1) : core \in CoresOf(CB(k).core_ranges)}})

MaxCandidateBefore(i) ==
    SetMax({OccupiedEndBefore(core, i) : core \in CoresOf(CB(i).core_ranges)})

MarkedOn(core, address, size) ==
    \E k \in 1 .. Len(per_core_cb_allocator_[core].l1_regions) :
       LET region == per_core_cb_allocator_[core].l1_regions[k]
       IN  region[1] <= address /\ address + size <= region[2]

RequestedTooLowMsg ==
    "Specified address should be at max local buffer region for core range set"
MarkAssertMsg ==
    "Local buffer address has to append to last L1 region or be at a higher address"

\* C1: once allocate_circular_buffers has completed, any two distinct circular
\* buffers that share a core occupy disjoint byte ranges [address, address+size).
C1_NoOverlapOnSharedCore ==
    Allocated =>
        \A i \in 1 .. NumCBs, j \in 1 .. NumCBs :
            (i < j /\ SharedCores(i, j) # {}) =>
                \/ CB(i).size = 0
                \/ CB(j).size = 0
                \/ value(CB(i).address) + CB(i).size <= value(CB(j).address)
                \/ value(CB(j).address) + CB(j).size <= value(CB(i).address)

C1_Witness ==
    /\ Allocated
    /\ call.op = "allocate_circular_buffers"
    /\ NumCBs = 2
    /\ SharedCores(1, 2) # {}
    /\ CB(1).size > 0 /\ CB(2).size > 0
    /\ has_value(CB(2).requested_address)

\* C2: a requested address below the maximum candidate of the buffer's cores
\* ends the allocation fatally; a requested address at or above it becomes the
\* resolved address and is marked on every core of the buffer.
C2_RequestedAddress ==
    /\ Allocated =>
          \A i \in 1 .. NumCBs :
              has_value(CB(i).requested_address) =>
                  /\ CB(i).address = CB(i).requested_address
                  /\ value(CB(i).requested_address) >= MaxCandidateBefore(i)
                  /\ \A core \in CoresOf(CB(i).core_ranges) :
                        MarkedOn(core, value(CB(i).requested_address), CB(i).size)
    /\ (status = "fatal" /\ fatal_log.msg = RequestedTooLowMsg) =>
          /\ fatal_log.args[1] < fatal_log.args[2]
          /\ \E i \in 1 .. NumCBs :
                /\ CB(i).requested_address = Some(fatal_log.args[1])
                /\ \A j \in 1 .. (i - 1) : has_value(CB(j).address)
                /\ MaxCandidateBefore(i) = fatal_log.args[2]

C2_Witness ==
    /\ Allocated
    /\ NumCBs = 2
    /\ has_value(CB(2).requested_address)
    /\ value(CB(2).address) > MaxCandidateBefore(2)
    /\ Cardinality(CoresOf(CB(2).core_ranges)) > 1

C2_FatalReached ==
    /\ status = "fatal"
    /\ fatal_log.msg = RequestedTooLowMsg
    /\ NumCBs = 2

\* C3: buffers are placed in registration order; one without a requested
\* address resolves to the maximum candidate over its cores after all earlier
\* buffers were marked, so it starts at or after the end of everything already
\* occupied on each of its cores and marking it never trips mark_address.
C3_MaxCandidate ==
    /\ Allocated =>
          \A i \in 1 .. NumCBs :
              ~has_value(CB(i).requested_address) =>
                  /\ CB(i).address = Some(MaxCandidateBefore(i))
                  /\ \A j \in 1 .. (i - 1) :
                        SharedCores(i, j) # {} =>
                            value(CB(i).address) >= value(CB(j).address) + CB(j).size
    /\ status = "fatal" => fatal_log.msg # MarkAssertMsg

C3_Witness ==
    /\ Allocated
    /\ NumCBs = 2
    /\ ~has_value(CB(2).requested_address)
    /\ \E c1 \in CoresOf(CB(2).core_ranges), c2 \in CoresOf(CB(2).core_ranges) :
          OccupiedEndBefore(c1, 2) < OccupiedEndBefore(c2, 2)

\* C4: invalidating a completed allocation and allocating again, with no
\* buffer added in between, reproduces every resolved address and every
\* per-core allocator, however often it is repeated.
C4_ReallocationIdentical ==
    (Allocated /\ has_value(first_allocation)) =>
        /\ Addresses(circular_buffers_) = value(first_allocation).addresses
        /\ per_core_cb_allocator_ = value(first_allocation).allocators

C4_Witness ==
    /\ Allocated
    /\ has_value(first_allocation)
    /\ value(first_allocation).repeats = MaxReallocations
    /\ NumCBs = 2
    /\ CB(1).size > 0 /\ CB(2).size > 0

\* C5: buffers registered on one single core without requested addresses are
\* packed back to back from L1_UNRESERVED_BASE in registration order and leave
\* that core with the single region [base, base + total size).
RECURSIVE SumSizes(_)
SumSizes(i) == IF i = 0 THEN 0 ELSE CB(i).size + SumSizes(i - 1)

C5_SingleCorePacking ==
    \A core \in Cores :
        (/\ Allocated
         /\ NumCBs > 0
         /\ \A i \in 1 .. NumCBs :
               /\ CoresOf(CB(i).core_ranges) = {core}
               /\ ~has_value(CB(i).requested_address)) =>
            /\ \A i \in 1 .. NumCBs :
                  CB(i).address = Some(L1_UNRESERVED_BASE + SumSizes(i - 1))
            /\ per_core_cb_allocator_[core].l1_regions =
                  << <<L1_UNRESERVED_BASE, L1_UNRESERVED_BASE + SumSizes(NumCBs)>> >>

C5_Witness ==
    /\ Allocated
    /\ NumCBs = 2
    /\ \A i \in 1 .. 2 :
          /\ CoresOf(CB(i).core_ranges) = {<<0, 0>>}
          /\ ~has_value(CB(i).requested_address)
          /\ CB(i).size > 0

\* --------------------------------------- registration with arbitrary indices
\* buffer indices around the ends of the slot range
IndexSetInputsWide ==
    {{0}, {1}, {0, 1}, {NUM_CIRCULAR_BUFFERS - 1}, {NUM_CIRCULAR_BUFFERS},
     {NUM_CIRCULAR_BUFFERS + 1}, {0, NUM_CIRCULAR_BUFFERS}}

CircularBufferConfigsWide ==
    [size : {50}, buffer_indices : IndexSetInputsWide, requested_address : {Nullopt}]

NextIndex ==
    \E crs \in CoreRangeSets, config \in CircularBufferConfigsWide :
        add_circular_buffer(crs, config)

SpecIndex == Init /\ [][NextIndex]_vars

SlotRange == 0 .. (NUM_CIRCULAR_BUFFERS - 1)

OccupiedSlots(core) ==
    IF core \in DOMAIN per_core_cb_allocator_
    THEN per_core_cb_allocator_[core].indices ELSE {}

\* C7: add_index(i) with i outside 0..NUM_CIRCULAR_BUFFERS-1 fails fatally and
\* marks no slot: a registration that carries such an index ends fatally, and
\* no allocator ever holds a slot outside the range.
C7_OutOfRangeIndexFatal ==
    /\ (call.op = "add_circular_buffer" /\ ~(call.args[2].buffer_indices \subseteq SlotRange))
          => status = "fatal"
    /\ \A core \in Cores : OccupiedSlots(core) \subseteq SlotRange

\* the failing input of C7: a buffer with index NUM_CIRCULAR_BUFFERS is registered
C7_IndexNRegistered ==
    /\ status = "ok"
    /\ \E i \in 1 .. NumCBs : NUM_CIRCULAR_BUFFERS \in CB(i).buffer_indices

\* C8: registered buffers that share a core never share a buffer index (the
\* conflicting registration fails fatally), and each core's occupied slots
\* are exactly the indices of the buffers registered on it.
C8_IndexExclusive ==
    status = "ok" =>
        /\ \A i \in 1 .. NumCBs, j \in 1 .. NumCBs :
              (i < j /\ SharedCores(i, j) # {}) =>
                  CB(i).buffer_indices \cap CB(j).buffer_indices = {}
        /\ \A core \in Cores :
              OccupiedSlots(core) =
                  UNION {CB(i).buffer_indices :
                           i \in {k \in 1 .. NumCBs : core \in CoresOf(CB(k).core_ranges)}}

\* C8 restricted to registrations whose indices all lie in the slot range
C8_IndexExclusiveInRange ==
    (\A i \in 1 .. NumCBs : CB(i).buffer_indices \subseteq SlotRange) => C8_IndexExclusive

\* ------------------------------------------- validation against the device
\* Devices: an L1 size, the number of banks of each core (core (0,0) may have
\* none or two), and the lowest address occupied by a statically placed L1
\* buffer, if any (the same in every bank).
DeviceInputs ==
    [l1_size : {L1_UNRESERVED_BASE + 50, L1_UNRESERVED_BASE + 100},
     num_banks : {[c \in Cores |-> IF c = <<0, 0>> THEN n ELSE 1] : n \in 0 .. 2},
     lowest_occupied_l1_address :
         {Nullopt, Some(L1_UNRESERVED_BASE + 50), Some(L1_UNRESERVED_BASE + 100)}]

CircularBufferConfigsPlain ==
    [size : {50}, buffer_indices : IndexSetInputs, requested_address : {Nullopt}]

NextValidate ==
    \/ \E range \in CoreRanges, config \in CircularBufferConfigsPlain :
          add_circular_buffer({range}, config)
    \/ allocate_circular_buffers
    \/ \E device \in DeviceInputs, logical_core \in {Nullopt} \cup {Some(c) : c \in Cores} :
          validate_circular_buffer_region(device, logical_core)

SpecValidate == Init /\ [][NextValidate]_vars

\* end of the highest occupied circular-buffer region of a core
RegionEnd(core) ==
    IF core \in DOMAIN per_core_cb_allocator_
    THEN SetMax({per_core_cb_allocator_[core].l1_regions[k][2] :
                   k \in 1 .. Len(per_core_cb_allocator_[core].l1_regions)})
    ELSE L1_UNRESERVED_BASE

CoreAcceptable(device, core) ==
    /\ RegionEnd(core) <= device.l1_size
    /\ device.num_banks[core] = 1
    /\ has_value(device.lowest_occupied_l1_address) =>
          ~(value(device.lowest_occupied_l1_address) < RegionEnd(core))

\* C6: validate_circular_buffer_region returns normally exactly when every
\* core it checks (the given core, or every core with an allocator) has its
\* region end within the L1 size, exactly one bank, and no statically placed
\* buffer below the region end; otherwise it ends fatally.
C6_ValidateRegion ==
    call.op = "validate_circular_buffer_region" =>
        LET device == call.args[1]
            logical_core == call.args[2]
            checked == IF has_value(logical_core) THEN {value(logical_core)}
                       ELSE DOMAIN per_core_cb_allocator_
        IN  (status = "ok") <=> (\A core \in checked : CoreAcceptable(device, core))

C6_Witness ==
    /\ call.op = "validate_circular_buffer_region"
    /\ status = "ok"
    /\ ~has_value(call.args[2])
    /\ Allocated
    /\ NumCBs = 2
    /\ \E core \in DOMAIN per_core_cb_allocator_ : RegionEnd(core) = call.args[1].l1_size
    /\ has_value(call.args[1].lowest_occupied_l1_address)
    /\ call.args[1].num_banks[<<0, 0>>] # 1

C6_FatalReached ==
    /\ call.op = "validate_circular_buffer_region"
    /\ status = "fatal"
    /\ fatal_log.msg = "Circular buffers in program clash with L1 buffers on core"

\* ------------------------------------------------------- kernel grouping
NextKernels ==
    \/ \E processor \in Processors, range \in CoreRanges : add_kernel(processor, {range})
    \/ core_to_kernel_group
    \/ add_blank_kernels

SpecKernels == Init /\ [][NextKernels]_vars

KernelCores(id) == CoresOf(kernel_by_id_[id].core_range_set)

\* C9: with two kernels of one role on a common core, computing the mapping
\* ends fatally, so a mapping is only ever returned when each role of each
\* core is claimed by at most one kernel.
C9_DuplicateRoleFatal ==
    (/\ call.op = "core_to_kernel_group"
     /\ \E i \in DOMAIN kernel_by_id_, j \in DOMAIN kernel_by_id_ :
           /\ i # j
           /\ kernel_by_id_[i].processor = kernel_by_id_[j].processor
           /\ KernelCores(i) \cap KernelCores(j) # {})
        => status = "fatal"

\* C10: after add_blank_kernels, core_to_kernel_group() has a group exactly
\* for the cores that hosted a kernel before, each with all three roles
\* assigned, and a role that a kernel held before is not given to one of the
\* blank kernels just created.
C10_BlankKernelsFillRoles ==
    (call.op = "add_blank_kernels" /\ status = "ok") =>
        LET blank_ids == {call.args[1][n] : n \in 1 .. Len(call.args[1])}
            before == DOMAIN kernel_by_id_ \ blank_ids
            hosted == UNION {KernelCores(i) : i \in before}
            groups == GroupsOf(core_to_kernel_group_, kernel_by_id_)
        IN  /\ DOMAIN groups = hosted
            /\ \A core \in hosted :
                  /\ has_value(groups[core].riscv0_id)
                  /\ has_value(groups[core].riscv1_id)
                  /\ has_value(groups[core].compute_id)
                  /\ \A processor \in Processors :
                        (\E i \in before : /\ kernel_by_id_[i].processor = processor
                                           /\ core \in KernelCores(i))
                            => value(RoleId(groups[core], processor)) \in before

C10_Witness ==
    /\ call.op = "add_blank_kernels"
    /\ status = "ok"
    /\ Len(call.args[1]) = 3
    /\ NumUserKernels = 2
    /\ \E i \in DOMAIN kernel_by_id_, j \in DOMAIN kernel_by_id_ :
          /\ kernel_by_id_[i].name = "user" /\ kernel_by_id_[j].name = "user"
          /\ kernel_by_id_[i].processor # kernel_by_id_[j].processor
          /\ KernelCores(i) \cap KernelCores(j) # {}
          /\ KernelCores(i) # KernelCores(j)

\* --------------------------------------------- queries of the kernel groups
NextQueries ==
    \/ \E processor \in Processors, range \in CoreRanges : add_kernel(processor, {range})
    \/ core_to_kernel_group
    \/ \E core \in Cores : kernels_on_core(core)

SpecQueries == Init /\ [][NextQueries]_vars

KernelsCovering(core, processor) ==
    {i \in DOMAIN kernel_by_id_ :
        kernel_by_id_[i].processor = processor /\ core \in KernelCores(i)}

EnableFlag(kernel_group, processor) ==
    IF processor = "BRISC" THEN kernel_group.launch_msg.enable_brisc
    ELSE IF processor = "NCRISC" THEN kernel_group.launch_msg.enable_ncrisc
    ELSE kernel_group.launch_msg.enable_triscs

\* the group describes the kernels registered on the core, role by role
GroupReflectsKernels(kernel_group, core) ==
    /\ \A processor \in Processors :
          /\ has_value(RoleId(kernel_group, processor)) <=> KernelsCovering(core, processor) # {}
          /\ has_value(RoleId(kernel_group, processor)) =>
                value(RoleId(kernel_group, processor)) \in KernelsCovering(core, processor)
          /\ EnableFlag(kernel_group, processor) <=> KernelsCovering(core, processor) # {}
    /\ kernel_group.launch_msg.run = "RUN_MSG_GO"

CoveredCores == UNION {KernelCores(i) : i \in DOMAIN kernel_by_id_}

ProgramIdle == compiler["this"].pc = "idle"

KernelRangeInputs == {[start |-> <<0, 0>>, end |-> <<0, 1>>]}

CircularBufferConfigsCompile ==
    [size : {50}, buffer_indices : {{0}}, requested_address : {Nullopt}]

CompileDeviceInputs == [is_initialized : BOOLEAN]

NextCompile ==
    \/ ProgramIdle /\ \E processor \in Processors, range \in KernelRangeInputs :
          add_kernel(processor, {range})
    \/ ProgramIdle /\ \E config \in CircularBufferConfigsCompile :
          add_circular_buffer({[start |-> <<0, 0>>, end |-> <<0, 0>>]}, config)
    \/ ProgramIdle /\ allocate_circular_buffers
    \/ \E device \in CompileDeviceInputs : compile("this", device)
    \/ CompileBlankKernel("this")
    \/ \E profile_kernel \in BOOLEAN, print_server_running \in BOOLEAN :
          compile_all_kernels("this", profile_kernel, print_server_running)
    \/ \E kernel_id \in DOMAIN kernel_by_id_ : kernel_compile_hash("this", kernel_id)
    \/ \E kernel_id \in DOMAIN kernel_by_id_ : kernel_compile_lookup("this", kernel_id)
    \/ \E kernel_id \in DOMAIN kernel_by_id_, thrown \in BOOLEAN :
          GenerateBinaries("this", kernel_id, thrown)
    \/ compile_read_all("this")
    \/ \E kernel_id \in DOMAIN kernel_by_id_ : read_binaries("this", kernel_id)
    \/ compile_done("this")

SpecCompile == Init /\ [][NextCompile]_vars

AllBinariesRead(p) ==
    \A kernel_id \in KernelIdsOf(ProgramOf(p)) :
        /\ has_value(BinariesOf(p, kernel_id).binary_path)
        /\ BinariesOf(p, kernel_id).binaries

\* C12: a compile(device) call on a Program whose compile_needed_ is clear
\* changes nothing: no blank build, no blank kernel, no compile or read task,
\* no ledger entry, and the kernels, groups and flags stay as they are.
C12_CleanCompileIsNoOp ==
    [][\A p \in ProgramIds :
          (/\ call'.op = "compile"
           /\ call.op = "compile" => call.args # call'.args
           /\ call'.args[1] = p
           /\ ~ProgramOf(p).compile_needed_)
              => UNCHANGED <<cbVars, compile_needed_, kernelVars, status, fatal_log,
                             compileVars, fwVars, semaphores_>>]_vars

C12_Witness ==
    /\ call.op = "compile"
    /\ call.args[1] = "this"
    /\ ~call.args[3]
    /\ ~call.args[2].is_initialized
    /\ status = "ok"
    /\ Len(kernel_ids_) = 4
    /\ AllBinariesRead("this")
    /\ work.blank_builds = 1

\* C14: inside one compile(device) call the read_binaries tasks are started
\* only when the compile task of every kernel id of the Program (blank kernels
\* included) has finished, and compile_needed_ is cleared only when every
\* read_binaries task has finished.
C14_Barriers ==
    \A p \in ProgramIds :
        /\ compiler[p].pc \in {"compile", "read"} =>
              DOMAIN compiler[p].tasks = KernelIdsOf(ProgramOf(p))
        /\ DOMAIN compiler[p].reads # {} =>
              /\ AllDone(compiler[p].tasks)
              /\ \A kernel_id \in DOMAIN compiler[p].tasks :
                    has_value(BinariesOf(p, kernel_id).binary_path)
        /\ (/\ compiler[p].pc = "idle"
            /\ has_value(compiler[p].entered)
            /\ ~ProgramOf(p).compile_needed_) =>
              /\ DOMAIN compiler[p].reads = KernelIdsOf(ProgramOf(p))
              /\ AllDone(compiler[p].reads)
              /\ AllBinariesRead(p)

C14_Witness ==
    /\ compiler["this"].pc = "read"
    /\ Cardinality(DOMAIN compiler["this"].reads) = 4
    /\ \E i \in DOMAIN compiler["this"].reads, j \in DOMAIN compiler["this"].reads :
          /\ compiler["this"].reads[i].pc = "done"
          /\ compiler["this"].reads[j].pc = "start"
    /\ \E i \in DOMAIN compiler["this"].tasks, j \in DOMAIN compiler["this"].tasks :
          /\ ~compiler["this"].tasks[i].cache_hit
          /\ compiler["this"].tasks[j].cache_hit

\* what a compile() call has done so far that its preconditions should precede
NothingDoneSince(p) ==
    /\ work.blank_builds = value(compiler[p].entered).blank_builds
    /\ compiler[p].tasks = <<>>
    /\ compiler[p].reads = <<>>
    /\ ProgramOf(p).kernel_ids_ = value(compiler[p].entered).kernel_ids_
    /\ ProgramOf(p).compile_needed_

\* C16: a compile(device) that ends fatally on one of its preconditions (device
\* not initialized; profiler active while the debug-print server runs) has
\* built no blank image, inserted no blank kernel, generated no binary, added
\* nothing to the ledger, and compile_needed_ is still set.
C16_PreconditionsFirst ==
    \A p \in ProgramIds :
        (/\ status = "fatal"
         /\ fatal_log.msg \in {DeviceNotInitializedMsg, PrintServerMsg}
         /\ fatal_log.args = <<p>>) => NothingDoneSince(p)

\* C16 for the first precondition alone: the device assertion precedes every step
C16_DeviceAssertFirst ==
    \A p \in ProgramIds :
        (/\ status = "fatal"
         /\ fatal_log.msg = DeviceNotInitializedMsg
         /\ fatal_log.args = <<p>>) => NothingDoneSince(p)

\* C17: whenever a compile task of compile(device) has called set_cb_data_fmt,
\* circular_buffer_allocation_needed_ is clear and every registered circular
\* buffer has its address.
C17_FormatsAfterAllocation ==
    \A p \in ProgramIds :
        (/\ compiler[p].pc \in {"compile", "read"}
         /\ \E kernel_id \in DOMAIN compiler[p].tasks : compiler[p].tasks[kernel_id].pc # "start")
            => /\ ~ProgramOf(p).circular_buffer_allocation_needed_
               /\ \A i \in 1 .. Len(ProgramOf(p).circular_buffers_) :
                     has_value(ProgramOf(p).circular_buffers_[i].address)

\* ------------------------------------- two Programs compiling concurrently
RECURSIVE RegisterKernels(_, _, _)
\* the Program after CreateDataMovementKernel / CreateComputeKernel for each
\* <<processor, core range>> of `kernels`, with kernel ids 0, 1, ...
RegisterKernels(program, kernels, n) ==
    IF n > Len(kernels) THEN program
    ELSE LET r == AddKernel([kernel_ids_ |-> program.kernel_ids_,
                             kernel_by_id_ |-> program.kernel_by_id_,
                             core_to_kernel_group_ |-> program.core_to_kernel_group_],
                            [id |-> n - 1, processor |-> kernels[n][1],
                             core_range_set |-> {kernels[n][2]}, name |-> "user"])
         IN  RegisterKernels([program EXCEPT !.compile_needed_ = TRUE,
                                             !.kernel_ids_ = r.kernel_ids_,
                                             !.kernel_by_id_ = r.kernel_by_id_,
                                             !.core_to_kernel_group_ = r.core_to_kernel_group_],
                             kernels, n + 1)

\* the kernels of the two Programs: each with two kernels of different roles
\* on one core, or one with two kernels of one role (and so of one compile
\* hash) on two cores beside a Program without kernels
ConcurrentInputs ==
    LET on(x, y) == [start |-> <<x, y>>, end |-> <<x, y>>]
    IN  {[this |-> << <<"BRISC", on(0, 0)>>, <<"NCRISC", on(0, 0)>> >>,
          other |-> << <<"BRISC", on(0, 0)>>, <<"NCRISC", on(0, 0)>> >>],
         [this |-> << <<"BRISC", on(0, 0)>>, <<"BRISC", on(0, 1)>> >>,
          other |-> <<>>]}

\* binaries a previous process left under outpath: none, or those of the
\* BRISC kernel
OutpathInputs ==
    {{}, {KernelPathSuffix([name |-> "user", processor |-> "BRISC"],
                           KernelCompileHash([name |-> "user", processor |-> "BRISC"], <<>>))}}

InitConcurrent ==
    /\ \E kernels \in ConcurrentInputs :
          LET program == RegisterKernels(NewProgram, kernels.this, 1)
          IN  /\ compile_needed_ = program.compile_needed_
              /\ kernel_ids_ = program.kernel_ids_
              /\ kernel_by_id_ = program.kernel_by_id_
              /\ core_to_kernel_group_ = program.core_to_kernel_group_
              /\ other_program = RegisterKernels(NewProgram, kernels.other, 1)
    /\ outpath \in OutpathInputs
    /\ semaphores_ = <<>>
    /\ circular_buffers_ = <<>>
    /\ per_core_cb_allocator_ = <<>>
    /\ circular_buffer_allocation_needed_ = FALSE
    /\ status = "ok"
    /\ fatal_log = NoLog
    /\ call = NoCall
    /\ first_allocation = Nullopt
    /\ compiler = [p \in ProgramIds |-> IdleCompiler]
    /\ kernel_binaries = [p \in ProgramIds |-> <<>>]
    /\ worker_crs_ = [p \in ProgramIds |-> {}]
    /\ compiled = FALSE
    /\ hash_lookup = {}
    /\ enable_persistent_kernel_cache \in BOOLEAN
    /\ work = NoWork
    /\ fw = IdleFirmware
    /\ noc_log = <<>>
    /\ command_stream = <<>>
    /\ command_ptr = 1
    /\ dispatch_message = 0
    /\ finish_ptr = 0
    /\ host_cq_finish = 0
    /\ workers = 0

NextConcurrent ==
    \/ \E p \in ProgramIds : compile(p, [is_initialized |-> TRUE])
    \/ \E p \in ProgramIds : CompileBlankKernel(p)
    \/ \E p \in ProgramIds : compile_all_kernels(p, FALSE, FALSE)
    \/ \E p \in ProgramIds : \E kernel_id \in DOMAIN ProgramOf(p).kernel_by_id_ :
          kernel_compile_hash(p, kernel_id)
    \/ \E p \in ProgramIds : \E kernel_id \in DOMAIN ProgramOf(p).kernel_by_id_ :
          kernel_compile_lookup(p, kernel_id)
    \/ \E p \in ProgramIds : \E kernel_id \in DOMAIN ProgramOf(p).kernel_by_id_ :
          GenerateBinaries(p, kernel_id, FALSE)
    \/ \E p \in ProgramIds : compile_read_all(p)
    \/ \E p \in ProgramIds : \E kernel_id \in DOMAIN ProgramOf(p).kernel_by_id_ :
          read_binaries(p, kernel_id)
    \/ \E p \in ProgramIds : compile_done(p)

SpecConcurrent == InitConcurrent /\ [][NextConcurrent]_vars

HashesLookedUp == DOMAIN work.added \cup DOMAIN work.hits \cup DOMAIN work.persistent

\* the compile tasks, of either Program, that hold kernel_hash and are at one of pcs
TasksWith(kernel_hash, pcs) ==
    {t \in UNION {{p} \X DOMAIN compiler[p].tasks : p \in ProgramIds} :
        /\ compiler[t[1]].tasks[t[2]].kernel_hash = kernel_hash
        /\ compiler[t[1]].tasks[t[2]].pc \in pcs}

Generating(kernel_hash) == TasksWith(kernel_hash, {"GenerateBinaries"})
LookedUp(kernel_hash) == TasksWith(kernel_hash, {"GenerateBinaries", "done"})
Missed(kernel_hash) == {t \in LookedUp(kernel_hash) : ~compiler[t[1]].tasks[t[2]].cache_hit}

\* C13 as stated: of the kernels with one compile hash that have been through
\* the ledger, exactly one observed the add as new, and it alone runs
\* GenerateBinaries.
C13_ExactlyOneGenerates ==
    \A kernel_hash \in HashesLookedUp :
        /\ Count(work.added, kernel_hash) = 1
        /\ Count(work.generated, kernel_hash) <= 1

\* C13 (amended): for each compile hash at most one kernel, of either Program,
\* observes the ledger add as new and runs GenerateBinaries, and exactly one
\* does unless a kernel of that hash found the binaries on disk with persistent
\* caching enabled; every other kernel of the hash is a cache hit and
\* generates nothing.
C13_AtMostOneGenerates ==
    \A kernel_hash \in HashesLookedUp :
        /\ Count(work.added, kernel_hash) <= 1
        /\ Count(work.persistent, kernel_hash) = 0 => Count(work.added, kernel_hash) = 1
        /\ Cardinality(Missed(kernel_hash)) = Count(work.added, kernel_hash)
        /\ Count(work.generated, kernel_hash) + Cardinality(Generating(kernel_hash))
              = Count(work.added, kernel_hash)
        /\ Cardinality(LookedUp(kernel_hash))
              = Count(work.added, kernel_hash) + Count(work.hits, kernel_hash)
                   + Count(work.persistent, kernel_hash)

\* a hash compiled by both Programs: one generation, the other a cache hit
C13_Witness ==
    \E kernel_hash \in HashesLookedUp :
        /\ Count(work.generated, kernel_hash) = 1
        /\ Count(work.hits, kernel_hash) >= 1
        /\ \A p \in ProgramIds :
              /\ compiler[p].pc = "compile"
              /\ \E kernel_id \in DOMAIN compiler[p].tasks :
                    /\ compiler[p].tasks[kernel_id].kernel_hash = kernel_hash
                    /\ compiler[p].tasks[kernel_id].pc = "done"

\* C15: the build body of CompileBlankKernel has run at most once in the
\* process, and exactly once as soon as a compile(device) call is past it.
C15_BlankBuiltOnce ==
    /\ work.blank_builds <= 1
    /\ (\E p \in ProgramIds : compiler[p].pc \in {"CompileProgram", "compile", "read"})
          => work.blank_builds = 1

\* ------------------------------------------- command streams of the firmware
SeqsUpTo(S, n) == UNION {[1 .. k -> S] : k \in 0 .. n}

RECURSIVE Flatten(_)
\* the words of a sequence of records, in stream order
Flatten(records) ==
    IF records = <<>> THEN <<>> ELSE Head(records) \o Flatten(Tail(records))

\* a NOC call without the tags of the log
Untagged(e) == [f \in DOMAIN e \ {"by", "at"} |-> e[f]]

IsPrefix(a, b) == Len(a) <= Len(b) /\ a = SubSeq(b, 1, Len(a))

\* ----------------------------------------------- buffer writes and reads
MaxBufSize == 6
MaxBurst == 4
MaxPage == 2
MaxBufferRecords == 1

\* src/dst address, NOC coordinate, bank base address, padded_buf_size,
\* burst_size, page_size, padded_page_size, buf_type; burst_size and
\* padded_page_size are positive (with 0 the loops of write_buffer never end)
BufferRecords ==
    {<<10, 1, 20, padded_buf_size, burst_size, page_size, padded_page_size, buf_type>> :
        padded_buf_size \in 0 .. MaxBufSize, burst_size \in 1 .. MaxBurst,
        page_size \in 1 .. MaxPage, padded_page_size \in 1 .. MaxPage, buf_type \in {0, 1}}

InitBuffers ==
    /\ HostInit
    /\ \E records \in SeqsUpTo(BufferRecords, MaxBufferRecords) : FirmwareInit(Flatten(records))
    /\ dispatch_message = 0
    /\ finish_ptr = 0
    /\ host_cq_finish = 0

NextBuffers ==
    \/ write_buffers
    \/ read_buffers
    \/ write_buffer
    \/ read_buffer
    \/ buffer_return

SpecBuffers == InitBuffers /\ [][NextBuffers]_vars

\* the calls of write_buffer / read_buffer that read into or write out of local memory
StagingAccesses ==
    {i \in DOMAIN noc_log :
        /\ noc_log[i].by \in {"write_buffer", "read_buffer"}
        /\ noc_log[i].op \in {"noc_async_read", "noc_async_write"}}

LocalAddr(e) == IF e.op = "noc_async_read" THEN e.dst ELSE e.src

\* the bytes of the call lie in the staging region of one burst of its record
WithinBurst(e) ==
    /\ LocalAddr(e) >= DEVICE_COMMAND_DATA_ADDR
    /\ LocalAddr(e) + e.size <= DEVICE_COMMAND_DATA_ADDR + command_stream[e.at + 4]

\* C19 as stated: every byte a buffer write or read record moves into or out
\* of local memory lies in [DEVICE_COMMAND_DATA_ADDR, DEVICE_COMMAND_DATA_ADDR
\* + burst_size of the record).
C19_StagingWithinBurst ==
    \A i \in StagingAccesses : WithinBurst(noc_log[i])

\* C19 (amended): the same for every record whose burst_size is a positive
\* multiple of its padded_page_size and whose page_size is at most its
\* padded_page_size, whatever its padded_buf_size.
C19_StagingWithinAlignedBurst ==
    \A i \in StagingAccesses :
        LET at == noc_log[i].at
        IN  (/\ command_stream[at + 6] > 0
             /\ command_stream[at + 4] > 0
             /\ command_stream[at + 4] % command_stream[at + 6] = 0
             /\ command_stream[at + 5] <= command_stream[at + 6])
                => WithinBurst(noc_log[i])

\* a record of 6 bytes in bursts of 4 and pages of 2 was executed to its end,
\* the second page of the first burst read from the staging region
C19_Witness ==
    /\ fw.op = "idle"
    /\ command_ptr = 9
    /\ SubSeq(command_stream, 4, 7) = <<6, 4, 2, 2>>
    /\ Len(noc_log) = 9
    /\ \E i \in StagingAccesses :
          /\ noc_log[i].by = "write_buffer"
          /\ noc_log[i].op = "noc_async_write"
          /\ noc_log[i].src = DEVICE_COMMAND_DATA_ADDR + 2

\* ------------------------------------------------------- program relays
MaxRelays == 2
MaxWrites == 2

\* src, dst, dst_noc, transfer_size, num_receivers
SubWriteInputs == {<<1000, 200, 3, 16, 2>>, <<1016, 300, 4, 8, 5>>}

\* src, src_noc, transfer_size of a relay; its sub-writes
RelayInputs ==
    SeqsUpTo([header : {<<5000, 7, 24>>, <<6000, 8, 32>>},
              writes : SeqsUpTo(SubWriteInputs, MaxWrites)], MaxRelays)

\* the words of the relays as the host lays them out: four words per relay,
\* then five per sub-write
RelayStream(relays) ==
    Flatten([r \in DOMAIN relays |->
                relays[r].header \o <<Len(relays[r].writes)>> \o Flatten(relays[r].writes)])

InitRelay ==
    /\ HostInit
    /\ \E relays \in RelayInputs : FirmwareInit(RelayStream(relays))
    /\ dispatch_message = 0
    /\ finish_ptr = 0
    /\ host_cq_finish = 0

NextRelay ==
    \/ \E relays \in RelayInputs :
          /\ RelayStream(relays) = command_stream
          /\ write_program(Len(relays))
    \/ write_program_relay
    \/ write_program_section
    \/ write_program_section_barrier
    \/ write_program_return

SpecRelay == InitRelay /\ [][NextRelay]_vars

\* what one relay has to put on the NOC: one read of the section and its
\* barrier, one multicast per sub-write from the sub-write's own words, the
\* write barrier
RelayCalls(relay) ==
    << [op |-> "noc_async_read", src |-> <<relay.header[2], relay.header[1]>>,
        dst |-> DEVICE_COMMAND_DATA_ADDR, size |-> relay.header[3], num_dests |-> 1],
       [op |-> "noc_async_read_barrier"] >>
    \o [w \in DOMAIN relay.writes |->
           [op |-> "noc_async_write_multicast", src |-> relay.writes[w][1],
            dst |-> <<relay.writes[w][3], relay.writes[w][2]>>,
            size |-> relay.writes[w][4], num_dests |-> relay.writes[w][5]]]
    \o << [op |-> "noc_async_write_barrier"] >>

\* C20: the NOC calls of write_program are, relay by relay in stream order,
\* one read of the section and its read barrier, then one multicast per
\* sub-write with the source, destination, size and receiver count of that
\* sub-write, then the write barrier, before the read of the next relay.
C20_RelayOrder ==
    \E relays \in RelayInputs :
        /\ RelayStream(relays) = command_stream
        /\ LET expected == Flatten([r \in DOMAIN relays |-> RelayCalls(relays[r])])
               issued == [i \in DOMAIN noc_log |-> Untagged(noc_log[i])]
           IN  /\ IsPrefix(issued, expected)
               /\ fw.op = "returned" => issued = expected
               /\ (fw.op = "write_program" /\ fw.pc = "relay") =>
                     issued = Flatten([r \in 1 .. fw.relay |-> RelayCalls(relays[r])])

\* two relays of two different sub-writes each were executed
C20_Witness ==
    /\ fw.op = "returned"
    /\ Len(noc_log) = 10
    /\ noc_log[3].size # noc_log[4].size
    /\ noc_log[6].src # noc_log[1].src

\* ------------------------------------------------------------ launch
MaxGroups == 2
MaxReceivers == 2
MaxWorkers == 4

\* NOC coordinate of a multicast group and its number of receivers
GroupInputs == SeqsUpTo({<<9, num_messages>> : num_messages \in 1 .. MaxReceivers}, MaxGroups)

\* the counter holds what the previous command left in it
InitLaunch ==
    /\ HostInit
    /\ \E groups \in GroupInputs : FirmwareInit(Flatten(groups))
    /\ dispatch_message \in 0 .. MaxWorkers
    /\ finish_ptr = 0
    /\ host_cq_finish = 0

NextLaunch ==
    \/ \E num_workers \in 0 .. MaxWorkers, groups \in GroupInputs :
          /\ Flatten(groups) = command_stream
          /\ launch_program(num_workers, Len(groups))
    \/ launch_program_multicast
    \/ launch_program_barrier
    \/ launch_program_return
    \/ worker_done

SpecLaunch == InitLaunch /\ [][NextLaunch]_vars

RECURSIVE ReceiverSum(_)
\* r1 + ... + rk of the groups in the stream
ReceiverSum(stream) ==
    IF Len(stream) < 2 THEN 0 ELSE stream[2] + ReceiverSum(SubSeq(stream, 3, Len(stream)))

Launched == fw.op = "returned" /\ fw.from = "launch_program" /\ fw.num_workers > 0

\* C18 as stated: launch_program with W > 0 returns only on reading W from the
\* completion counter, and not before the counter has reached the sum of the
\* receiver counts of its multicast groups.
C18_ReturnsAfterAllReceivers ==
    Launched => /\ value(fw.message) = fw.num_workers
                /\ value(fw.message) >= ReceiverSum(command_stream)

\* C18 (amended): launch_program with W > 0 returns only on reading W from the
\* completion counter; when the receiver counts of its multicast groups sum
\* to W, every group has been sent its launch message and every receiver has
\* signalled completion by then.
C18_ReturnsAtWorkerCount ==
    Launched =>
        /\ value(fw.message) = fw.num_workers
        /\ ReceiverSum(command_stream) = fw.num_workers =>
              /\ value(fw.message) >= ReceiverSum(command_stream)
              /\ workers = 0
              /\ Len(noc_log) = Len(command_stream) \div 2 + 1
              /\ \A g \in 1 .. Len(command_stream) \div 2 :
                    /\ noc_log[g].op = "noc_async_write_multicast"
                    /\ noc_log[g].num_dests = command_stream[2 * g]

\* two groups of 1 and 2 receivers, W = 3, counter stale at the start
C18_Witness ==
    /\ Launched
    /\ command_stream = <<9, 1, 9, 2>>
    /\ fw.num_workers = 3
    /\ dispatch_message = 3

\* ------------------------------------- one CircularBufferAllocator on its own
MaxRegions == 3
MaxAddressOffset == 3
MaxMarkSize == 2

\* the allocator of core (0,0), driven directly
TheAllocator == AllocatorAt(per_core_cb_allocator_, <<0, 0>>)

\* CircularBufferAllocator::mark_address(address, size) on that allocator; the
\* call and the allocator it found are recorded
allocator_mark_address(address, size) ==
    /\ status = "ok"
    /\ Len(TheAllocator.l1_regions) < MaxRegions
    /\ LET o == mark_address(TheAllocator, address, size)
       IN  IF has_value(o.fatal)
           THEN /\ status' = "fatal"
                /\ fatal_log' = value(o.fatal)
                /\ UNCHANGED per_core_cb_allocator_
           ELSE /\ per_core_cb_allocator_' = Put(per_core_cb_allocator_, <<0, 0>>, o.alloc)
                /\ UNCHANGED <<status, fatal_log>>
    /\ call' = [op |-> "mark_address", args |-> <<address, size, TheAllocator>>]
    /\ UNCHANGED <<circular_buffers_, circular_buffer_allocation_needed_, compile_needed_,
                   first_allocation, kernelVars, compileVars, fwVars, semaphores_>>

\* CircularBufferAllocator::reset_available_addresses on that allocator
allocator_reset ==
    /\ status = "ok"
    /\ per_core_cb_allocator_' =
           Put(per_core_cb_allocator_, <<0, 0>>, reset_available_addresses(TheAllocator))
    /\ call' = [op |-> "reset_available_addresses", args |-> <<>>]
    /\ UNCHANGED <<circular_buffers_, circular_buffer_allocation_needed_, compile_needed_,
                   status, fatal_log, first_allocation, kernelVars, compileVars, fwVars, semaphores_>>

NextAllocator ==
    \/ \E address \in (L1_UNRESERVED_BASE - 1) .. (L1_UNRESERVED_BASE + MaxAddressOffset),
          size \in 0 .. MaxMarkSize : allocator_mark_address(address, size)
    \/ allocator_reset

SpecAllocator == Init /\ [][NextAllocator]_vars

\* the region list is non-empty, in address order, and no region touches or
\* overlaps its predecessor
RegionsDisjointSorted(a) ==
    /\ Len(a.l1_regions) >= 1
    /\ \A r \in 1 .. Len(a.l1_regions) : a.l1_regions[r][1] <= a.l1_regions[r][2]
    /\ \A r \in 2 .. Len(a.l1_regions) : a.l1_regions[r][1] > a.l1_regions[r - 1][2]

\* C22: the region list of an allocator is non-empty and sorted, each region
\* starts strictly above the end of its predecessor, and the candidate is the
\* end of the last region, the highest occupied address; mark_address at that
\* end extends the last region in place, above it appends [addr, addr+size),
\* below it fails the assertion.
C22_AllocatorRegions ==
    /\ RegionsDisjointSorted(TheAllocator)
    /\ get_address_candidate(TheAllocator) = TheAllocator.l1_regions[Len(TheAllocator.l1_regions)][2]
    /\ \A r \in 1 .. Len(TheAllocator.l1_regions) :
          TheAllocator.l1_regions[r][2] <= get_address_candidate(TheAllocator)
    /\ call.op = "mark_address" =>
          LET address == call.args[1]
              size == call.args[2]
              before == call.args[3].l1_regions
              after == TheAllocator.l1_regions
              end == before[Len(before)][2]
          IN  /\ address < end <=> (status = "fatal" /\ fatal_log.msg = MarkAssertMsg)
              /\ address < end => after = before
              /\ address = end =>
                    /\ Len(after) = Len(before)
                    /\ after = [before EXCEPT ![Len(before)] = <<@[1], end + size>>]
              /\ address > end => after = Append(before, <<address, address + size>>)

\* the last call appended a second region above a gap
C22_Witness ==
    /\ call.op = "mark_address"
    /\ status = "ok"
    /\ Len(TheAllocator.l1_regions) = 3
    /\ call.args[1] > call.args[3].l1_regions[2][2]
    /\ TheAllocator.l1_regions[1][2] > L1_UNRESERVED_BASE

\* the assertion of mark_address fired
C22_AssertFired == status = "fatal" /\ fatal_log.msg = MarkAssertMsg

\* no address is marked above the reserved base on any core
PreAllocation ==
    \A core \in DOMAIN per_core_cb_allocator_ :
        per_core_cb_allocator_[core].l1_regions = NewAllocator.l1_regions

\* C23: whenever the allocation-dirty flag is set (and no operation has died),
\* every per-core allocator is in its pre-allocation state; add_circular_buffer
\* and invalidate_circular_buffer_allocation always return with the flag set.
C23_DirtyMeansPreAllocation ==
    status = "ok" =>
        /\ circular_buffer_allocation_needed_ => PreAllocation
        /\ call.op \in {"add_circular_buffer", "invalidate_circular_buffer_allocation"}
              => circular_buffer_allocation_needed_

\* an invalidation after an allocation that had marked addresses
C23_Witness ==
    /\ status = "ok"
    /\ call.op = "invalidate_circular_buffer_allocation"
    /\ has_value(first_allocation)
    /\ \E i \in 1 .. Len(circular_buffers_) : circular_buffers_[i].size > 0
    /\ circular_buffer_allocation_needed_

\* the positions of the records in the command stream
RecordPositions == {at \in 1 .. Len(command_stream) : at % 8 = 1}

\* the calls `op` that `routine` issued for the record at `at`, in order
CallsOf(routine, at, op) ==
    SelectSeq(noc_log, LAMBDA e : e.by = routine /\ e.at = at /\ e.op = op)

CeilDiv(a, b) == (a + b - 1) \div b

\* C24: for a buffer-write record whose burst_size is a positive multiple of
\* its padded_page_size, the page writes of write_buffer carry the page ids
\* 0, 1, 2, ... across bursts, each moves page_size bytes from the staging
\* offset (index of the page within its burst) * padded_page_size, and there
\* are ceil(padded_buf_size / padded_page_size) of them once the record is done.
C24_PageWrites ==
    \A at \in RecordPositions :
        LET padded_buf_size == command_stream[at + 3]
            burst_size == command_stream[at + 4]
            page_size == command_stream[at + 5]
            padded_page_size == command_stream[at + 6]
            pages == CallsOf("write_buffer", at, "noc_async_write")
        IN  (padded_page_size > 0 /\ burst_size > 0 /\ burst_size % padded_page_size = 0) =>
                /\ \A j \in 1 .. Len(pages) :
                      /\ pages[j].dst[3] = j - 1
                      /\ pages[j].size = page_size
                      /\ pages[j].src = DEVICE_COMMAND_DATA_ADDR
                            + ((j - 1) % (burst_size \div padded_page_size)) * padded_page_size
                /\ Len(pages) <= CeilDiv(padded_buf_size, padded_page_size)
                /\ (command_ptr >= at + 8 /\ CallsOf("read_buffer", at, "noc_async_write") = <<>>)
                      => Len(pages) = CeilDiv(padded_buf_size, padded_page_size)

\* a record of 5 bytes in bursts of 4 and padded pages of 2 was written: three
\* pages, the third one from the start of the staging region again
C24_Witness ==
    /\ fw.op = "idle"
    /\ command_ptr = 9
    /\ SubSeq(command_stream, 4, 7) = <<5, 4, 1, 2>>
    /\ LET pages == CallsOf("write_buffer", 1, "noc_async_write")
       IN  /\ Len(pages) = 3
           /\ pages[3].dst[3] = 2
           /\ pages[3].src = DEVICE_COMMAND_DATA_ADDR

\* the call at position i of the log comes after a run of calls `op` that
\* starts right behind a call `before` (or, if first_ok, at the start of the log)
AfterRunBehind(i, op, before, first_ok) ==
    \E k \in 0 .. (i - 1) :
        /\ \A n \in (k + 1) .. (i - 1) : noc_log[n].op = op
        /\ IF k = 0 THEN first_ok ELSE noc_log[k].op = before

\* C28: in write_buffer a page write is issued only behind the read barrier of
\* its burst and a burst read only behind the write barrier of the burst
\* before; in read_buffer the outgoing write is issued only behind the read
\* barrier of its page reads and page reads only behind the barrier of the
\* write before.
C28_StagingBarriers ==
    \A i \in DOMAIN noc_log :
        /\ (noc_log[i].by = "write_buffer" /\ noc_log[i].op = "noc_async_write") =>
              AfterRunBehind(i, "noc_async_write", "noc_async_read_barrier", FALSE)
        /\ (noc_log[i].by = "write_buffer" /\ noc_log[i].op = "noc_async_read") =>
              (i = 1 \/ noc_log[i - 1].op = "noc_async_write_barrier")
        /\ (noc_log[i].by = "read_buffer" /\ noc_log[i].op = "noc_async_write") =>
              /\ i > 2
              /\ noc_log[i - 1].op = "noc_async_read_barrier"
              /\ noc_log[i - 2].op = "noc_async_read"
        /\ (noc_log[i].by = "read_buffer" /\ noc_log[i].op = "noc_async_read") =>
              AfterRunBehind(i, "noc_async_read", "noc_async_write_barrier", TRUE)
        /\ (i = Len(noc_log) /\ fw.op = "idle") => noc_log[i].op = "noc_async_write_barrier"

\* a record was read back in two bursts of two pages and one page
C28_Witness ==
    /\ fw.op = "idle"
    /\ command_ptr = 9
    /\ Len(CallsOf("read_buffer", 1, "noc_async_write")) = 2
    /\ Len(CallsOf("read_buffer", 1, "noc_async_read")) = 3

\* the dispatcher core keeps executing: a loop iteration or return that is
\* possible is eventually taken
SpecBuffersLive ==
    /\ InitBuffers
    /\ [][NextBuffers]_vars
    /\ WF_vars(write_buffer)
    /\ WF_vars(read_buffer)
    /\ WF_vars(buffer_return)

RECURSIVE SumSizesOf(_)
SumSizesOf(calls) == IF calls = <<>> THEN 0 ELSE Head(calls).size + SumSizesOf(Tail(calls))

\* the chunk transfers of the record at `at`: the reads of write_buffer into
\* the staging region or the writes of read_buffer out of it
Bursts(at) ==
    CallsOf("write_buffer", at, "noc_async_read") \o CallsOf("read_buffer", at, "noc_async_write")

\* the address on the far side of a chunk transfer
FarAddr(e) == IF e.op = "noc_async_read" THEN e.src[2] ELSE e.dst[2]

\* the bursts of a record so far: each but possibly the last of the record
\* moves burst_size bytes, none moves more than is left, and the far address
\* advances by the bytes moved
BurstsInOrder(at) ==
    LET bursts == Bursts(at)
        padded_buf_size == command_stream[at + 3]
        burst_size == command_stream[at + 4]
    IN  /\ \A k \in 1 .. Len(bursts) :
              /\ FarAddr(bursts[k]) = command_stream[at] + SumSizesOf(SubSeq(bursts, 1, k - 1))
              /\ bursts[k].size = min(burst_size,
                                      padded_buf_size - SumSizesOf(SubSeq(bursts, 1, k - 1)))
              /\ bursts[k].size > 0
        /\ SumSizesOf(bursts) <= padded_buf_size
        /\ command_ptr >= at + 8 =>
              /\ Len(bursts) = CeilDiv(padded_buf_size, burst_size)
              /\ SumSizesOf(bursts) = padded_buf_size

\* C25: write_buffer and read_buffer return for every record with positive
\* burst_size and padded_page_size, after exactly ceil(padded_buf_size /
\* burst_size) bursts of burst_size bytes (the last one possibly shorter) that
\* sum to padded_buf_size, the source or destination address advancing by the
\* bytes moved.
C25_BuffersTerminate ==
    /\ [](\A at \in RecordPositions : BurstsInOrder(at))
    /\ (fw.op \in {"write_buffer", "read_buffer"}) ~> (fw.op = "idle")

\* a record of 6 bytes was written in bursts of 4 and 2 bytes
C25_Witness ==
    /\ fw.op = "idle"
    /\ command_ptr = 9
    /\ LET bursts == CallsOf("write_buffer", 1, "noc_async_read")
       IN  /\ Len(bursts) = 2
           /\ bursts[1].size = 4
           /\ bursts[2].size = 2
           /\ bursts[2].src[2] = command_stream[1] + 4

\* launch_program was entered, and may have returned
LaunchEntered == fw.op = "launch_program" \/ (fw.op = "returned" /\ fw.from = "launch_program")

Multicasts == SelectSeq(noc_log, LAMBDA e : e.op = "noc_async_write_multicast")

RECURSIVE SumReceivers(_)
SumReceivers(calls) ==
    IF calls = <<>> THEN 0 ELSE Head(calls).num_dests + SumReceivers(Tail(calls))

\* the counter was zero when the first multicast went out and only launched
\* workers have written it since; the groups handled so far got one multicast
\* each, with their receiver counts; the barrier stands between the last
\* multicast and the busy-wait
LaunchInOrder ==
    /\ dispatch_message + workers = SumReceivers(Multicasts)
    /\ \A g \in 1 .. Len(Multicasts) :
          /\ Multicasts[g].dst[1] = command_stream[2 * g - 1]
          /\ Multicasts[g].num_dests = command_stream[2 * g]
    /\ IF fw.op = "launch_program" /\ fw.pc = "multicast"
       THEN /\ Len(Multicasts) = fw.i \div 2
            /\ noc_log = Multicasts
       ELSE /\ Len(Multicasts) = Len(command_stream) \div 2
            /\ noc_log = Append(Multicasts, [op |-> "noc_async_write_barrier",
                                            by |-> "launch_program", at |-> 1])

\* C27 as stated, for every launch record
C27_ResetThenMulticasts == LaunchEntered => LaunchInOrder

\* C27 (amended): for every launch record with expected worker count W > 0,
\* launch_program resets the completion counter before the first multicast,
\* issues one multicast per group with the group's receiver count, and waits
\* only behind the write barrier; no completion increment is erased.
C27_ResetThenMulticastsIfWorkers == (LaunchEntered /\ fw.num_workers > 0) => LaunchInOrder

\* in the busy-wait with a counter that was stale before the launch, one of
\* three launched workers has signalled
C27_Witness ==
    /\ fw.op = "launch_program"
    /\ fw.pc = "wait"
    /\ Len(Multicasts) = 2
    /\ dispatch_message = 1
    /\ workers = 2

\* the firmware keeps executing and every launched worker finishes
SpecLaunchLive ==
    /\ InitLaunch
    /\ [][NextLaunch]_vars
    /\ WF_vars(launch_program_multicast)
    /\ WF_vars(launch_program_barrier)
    /\ WF_vars(launch_program_return)
    /\ WF_vars(worker_done)

\* workers that have incremented the counter since the launch
Signalled == SumReceivers(Multicasts) - workers

\* C26: when the launched workers are the W expected ones and each increments
\* the counter once, launch_program returns; it never returns while fewer
\* than W workers have signalled, and never at all when fewer than W were
\* launched.
C26_LaunchLiveness ==
    /\ (fw.op = "launch_program" /\ ReceiverSum(command_stream) = fw.num_workers) ~> Launched
    /\ [](Launched => Signalled >= fw.num_workers)
    /\ []((LaunchEntered /\ ReceiverSum(command_stream) < fw.num_workers) => ~Launched)

\* a launch of two groups of two receivers with W = 4 has returned
C26_Witness ==
    /\ Launched
    /\ command_stream = <<9, 2, 9, 2>>
    /\ fw.num_workers = 4
    /\ workers = 0

\* the busy-wait goes on for ever: three workers expected, two launched
C26_Stuck ==
    /\ fw.op = "launch_program"
    /\ fw.pc = "wait"
    /\ fw.num_workers = 3
    /\ workers = 0
    /\ dispatch_message = 2

\* ------------------------------------------------- the finish handshake
MaxFinish == 2
MaxWord == 3

\* the two words hold what earlier commands and the boot left in them
InitFinish ==
    /\ HostInit
    /\ FirmwareInit(<<>>)
    /\ dispatch_message = 0
    /\ finish_ptr \in 0 .. MaxWord
    /\ host_cq_finish \in 0 .. MaxWord

NextFinish ==
    \/ \E finish \in 0 .. MaxFinish : finish_program(finish)
    \/ finish_program_write
    \/ noc_write_lands
    \/ finish_program_barrier
    \/ finish_program_return

SpecFinish == InitFinish /\ [][NextFinish]_vars

FinishReturned == fw.op = "returned" /\ fw.from = "finish_program"

FinishWrite ==
    [op |-> "noc_async_write", src |-> CQ_FINISH_PTR, dst |-> <<"pcie", HOST_CQ_FINISH_PTR>>,
     size |-> 4, num_dests |-> 0, by |-> "finish_program", at |-> 1]

FinishBarrier == [op |-> "noc_async_write_barrier", by |-> "finish_program", at |-> 1]

\* C21: with a non-zero finish flag finish_program issues exactly one write,
\* carrying the sentinel 1, to the host completion pointer, clears the local
\* finish word only behind the write barrier and leaves it 0 on return; with
\* a zero flag it issues no write and leaves the word as it was.
C21_FinishHandshake ==
    /\ fw.op = "finish_program" =>
          /\ finish_ptr = 1
          /\ noc_log \in {<<>>, <<FinishWrite>>, <<FinishWrite, FinishBarrier>>}
    /\ (FinishReturned /\ fw.finish # 0) =>
          /\ noc_log = <<FinishWrite, FinishBarrier>>
          /\ host_cq_finish = 1
          /\ finish_ptr = 0
    /\ (FinishReturned /\ fw.finish = 0) =>
          /\ noc_log = <<>>
          /\ <<finish_ptr, host_cq_finish>> = fw.on_entry

\* finish_program(2) has returned; both words held 2 when it was called
C21_Witness ==
    /\ FinishReturned
    /\ fw.finish = 2
    /\ fw.on_entry = <<2, 2>>
    /\ host_cq_finish = 1

\* finish_program(0) has returned with a stale finish word
C21_WitnessZero ==
    /\ FinishReturned
    /\ fw.finish = 0
    /\ finish_ptr = 2

\* ------------------------------- reads against a generation still running
\* compile() of Program p has started the read_binaries of its kernels
ReadsStarted(p) == compiler[p].pc = "read"

\* compile() of Program p has run to its end and cleared compile_needed_
CompileCleared(p) ==
    /\ compiler[p].pc = "idle"
    /\ compiler[p].tasks # <<>>
    /\ ~ProgramOf(p).compile_needed_

\* C29: of two Programs compiled concurrently that hold a kernel of one compile
\* hash, neither starts read_binaries for that kernel nor clears its compile
\* flag before the one generation for that hash has finished.
C29_ReadsAfterGeneration ==
    \A p \in ProgramIds : \A kernel_id \in DOMAIN compiler[p].tasks :
        (ReadsStarted(p) \/ CompileCleared(p)) =>
            LET kernel_hash == compiler[p].tasks[kernel_id].kernel_hash
            IN  Count(work.added, kernel_hash) > 0 => Count(work.generated, kernel_hash) > 0

\* ------------------------------------------------ the compile-dirty flag
SemaphoreValues == {0, 1}

\* the Program of SpecCompile, with semaphores registered between compiles
NextCompileFlag ==
    \/ NextCompile
    \/ ProgramIdle /\ \E init_value \in SemaphoreValues :
          add_semaphore({[start |-> <<0, 0>>, end |-> <<0, 0>>]}, L1_UNRESERVED_BASE, init_value)

SpecCompileFlag == Init /\ [][NextCompileFlag]_vars

\* nothing has been registered with the Program and nothing compiled
FreshProgram ==
    /\ kernel_ids_ = <<>>
    /\ circular_buffers_ = <<>>
    /\ semaphores_ = <<>>
    /\ ~has_value(compiler["this"].entered)

\* the step that clears compile_needed_ ends a compile whose kernels have all
\* been through both barriers
LastStepOfCompile ==
    /\ compiler["this"].pc = "read"
    /\ AllDone(compiler["this"].tasks)
    /\ AllDone(compiler["this"].reads)
    /\ DOMAIN compiler["this"].reads = KernelIdsOf(ThisProgram)
    /\ compiler'["this"].pc = "idle"

\* C30: compile_needed_ is clear on a fresh Program, set after every
\* add_kernel, add_circular_buffer and add_semaphore, and cleared only by the
\* last step of a full compile; while it is clear every registered kernel id
\* has its binary path set and its binaries loaded.
C30_CompileFlag ==
    /\ [](FreshProgram => ~compile_needed_)
    /\ [](call.op \in {"add_kernel", "add_circular_buffer", "add_semaphore"} => compile_needed_)
    /\ [][(compile_needed_ /\ ~compile_needed_') => LastStepOfCompile]_vars
    /\ [](~compile_needed_ => AllBinariesRead("this"))

\* a compile has cleared the flag of a Program with a semaphore and kernels,
\* whose binaries are loaded
C30_Witness ==
    /\ ~compile_needed_
    /\ call.op = "compile_done"
    /\ Len(semaphores_) = 1
    /\ Len(kernel_ids_) >= 2

\* add_semaphore has set the flag of a Program compiled before
C30_WitnessDirty ==
    /\ compile_needed_
    /\ call.op = "add_semaphore"
    /\ has_value(compiler["this"].entered)
    /\ AllBinariesRead("this")
    /\ Len(kernel_ids_) >= 2

====
